---------------------------- MODULE Spec2Model ----------------------------
(***************************************************************************)
(* Model of the form-validation engine of src/src/utils/validation.ts:     *)
(* the built-in rule constructors (pure functions over JavaScript values)  *)
(* and the useFormValidation composable (validate / clearErrors /          *)
(* hasError / getError over the held error map).                           *)
(*                                                                         *)
(* JavaScript values are records [t |-> typeof-like tag, v |-> payload].   *)
(* Strings are sequences of one-character strings so that trimming,        *)
(* length and regular-expression matching are computed, not assumed.       *)
(* Numbers are [k |-> "fin", m |-> mantissa, d |-> decimals] (m / 10^d),   *)
(* or the specials "nan", "inf", "ninf".                                   *)
(***************************************************************************)
EXTENDS Integers, Sequences, FiniteSets, TLC

\* ------------------------------------------------------------------ bounds
MaxNumStrLen == 3      \* longest generated string over the numeric alphabet
MaxEmailStrLen == 6    \* longest generated string over the e-mail alphabet
MaxRules == 2          \* longest generated rule list of a field
MaxNodes == 3          \* most nodes (containers and leaves) of a generated payload
MaxCalls == 3          \* most handleLeafClick calls that get past the loading check
MaxTimers == 2         \* most auto-clear timers pending at once

\* ------------------------------------------------------- JavaScript values
JsNull == [t |-> "null"]
JsUndefined == [t |-> "undefined"]
JsBool(b) == [t |-> "boolean", v |-> b]
JsStr(s) == [t |-> "string", v |-> s]
JsArr(a) == [t |-> "array", v |-> a]
Fin(m, d) == [k |-> "fin", m |-> m, d |-> d]
NaN == [k |-> "nan"]
PosInf == [k |-> "inf"]
NegInf == [k |-> "ninf"]
JsNum(x) == [t |-> "number", v |-> x]

Whitespace == {" "}
Digits == {"0", "1", "2", "3", "4", "5", "6", "7", "8", "9"}

DigitVal(c) ==
  CASE c = "0" -> 0 [] c = "1" -> 1 [] c = "2" -> 2 [] c = "3" -> 3
    [] c = "4" -> 4 [] c = "5" -> 5 [] c = "6" -> 6 [] c = "7" -> 7
    [] c = "8" -> 8 [] c = "9" -> 9

DigitChar(i) ==
  CASE i = 0 -> "0" [] i = 1 -> "1" [] i = 2 -> "2" [] i = 3 -> "3"
    [] i = 4 -> "4" [] i = 5 -> "5" [] i = 6 -> "6" [] i = 7 -> "7"
    [] i = 8 -> "8" [] i = 9 -> "9"

RECURSIVE Pow10(_)
Pow10(d) == IF d = 0 THEN 1 ELSE 10 * Pow10(d - 1)

\* String.prototype.trim: strip leading and trailing white space
RECURSIVE TrimLeft(_)
TrimLeft(s) ==
  IF s # <<>> /\ Head(s) \in Whitespace THEN TrimLeft(Tail(s)) ELSE s

RECURSIVE TrimRight(_)
TrimRight(s) ==
  IF s # <<>> /\ s[Len(s)] \in Whitespace
    THEN TrimRight(SubSeq(s, 1, Len(s) - 1))
    ELSE s

Trim(s) == TrimRight(TrimLeft(s))

AllIn(s, set) == \A i \in 1..Len(s) : s[i] \in set

RECURSIVE DigitsToInt(_)
DigitsToInt(s) ==
  IF s = <<>> THEN 0
  ELSE 10 * DigitsToInt(SubSeq(s, 1, Len(s) - 1)) + DigitVal(s[Len(s)])

InfinityStr == <<"I", "n", "f", "i", "n", "i", "t", "y">>

\* index of the first "." of s, or 0
DotIndex(s) ==
  IF \E i \in 1..Len(s) : s[i] = "."
    THEN CHOOSE i \in 1..Len(s) : s[i] = "." /\ \A j \in 1..(i - 1) : s[j] # "."
    ELSE 0

\* unsigned decimal literal: digits [. digits] | . digits
UnsignedDecimal(body, sign) ==
  LET dot == DotIndex(body)
      intPart == IF dot = 0 THEN body ELSE SubSeq(body, 1, dot - 1)
      fracPart == IF dot = 0 THEN <<>> ELSE SubSeq(body, dot + 1, Len(body))
  IN IF body = InfinityStr THEN (IF sign = 1 THEN PosInf ELSE NegInf)
     ELSE IF AllIn(intPart, Digits) /\ AllIn(fracPart, Digits)
             /\ Len(intPart) + Len(fracPart) >= 1
       THEN Fin(sign * DigitsToInt(intPart \o fracPart), Len(fracPart))
       ELSE NaN

\* StringToNumber of ECMAScript (decimal literals; the alphabets of the
\* model hold no exponent letter and no radix prefix)
StringToNumber(s) ==
  LET str == Trim(s)
  IN IF str = <<>> THEN Fin(0, 0)
     ELSE IF Head(str) = "-" THEN UnsignedDecimal(Tail(str), -1)
     ELSE IF Head(str) = "+" THEN UnsignedDecimal(Tail(str), 1)
     ELSE UnsignedDecimal(str, 1)

RECURSIVE NatToString(_)
NatToString(n) ==
  IF n < 10 THEN <<DigitChar(n)>>
  ELSE NatToString(n \div 10) \o <<DigitChar(n % 10)>>

\* Number.prototype.toString for the whole numbers and specials of the model
NumberToString(x) ==
  CASE x.k = "nan" -> <<"N", "a", "N">>
    [] x.k = "inf" -> InfinityStr
    [] x.k = "ninf" -> <<"-">> \o InfinityStr
    [] x.k = "fin" /\ x.d = 0 ->
         IF x.m < 0 THEN <<"-">> \o NatToString(-x.m) ELSE NatToString(x.m)

\* Array.prototype.join(",") over an array of strings
RECURSIVE Join(_)
Join(a) ==
  IF a = <<>> THEN <<>>
  ELSE IF Len(a) = 1 THEN a[1]
  ELSE a[1] \o <<",">> \o Join(Tail(a))

\* ToString of ECMAScript, which is what String(value) computes
JsToString(value) ==
  CASE value.t = "string" -> value.v
    [] value.t = "null" -> <<"n", "u", "l", "l">>
    [] value.t = "undefined" -> <<"u", "n", "d", "e", "f", "i", "n", "e", "d">>
    [] value.t = "boolean" ->
         IF value.v THEN <<"t", "r", "u", "e">> ELSE <<"f", "a", "l", "s", "e">>
    [] value.t = "number" -> NumberToString(value.v)
    [] value.t = "array" -> Join(value.v)

\* ToNumber of ECMAScript, which is what Number(value) computes
Number(value) ==
  CASE value.t = "number" -> value.v
    [] value.t = "null" -> Fin(0, 0)
    [] value.t = "undefined" -> NaN
    [] value.t = "boolean" -> IF value.v THEN Fin(1, 0) ELSE Fin(0, 0)
    [] value.t = "string" -> StringToNumber(value.v)
    [] value.t = "array" -> StringToNumber(Join(value.v))

\* the global isNaN(value): coerces with ToNumber first
isNaN(value) == Number(value).k = "nan"

\* x > n, x <= n, x >= n for a whole number n (every comparison with NaN is false)
NumGt(x, n) == x.k = "inf" \/ (x.k = "fin" /\ x.m > n * Pow10(x.d))
NumLe(x, n) == x.k = "ninf" \/ (x.k = "fin" /\ x.m <= n * Pow10(x.d))
NumGe(x, n) == x.k = "inf" \/ (x.k = "fin" /\ x.m >= n * Pow10(x.d))

\* value === '' and Array.isArray(value)
IsEmptyStringValue(value) == value.t = "string" /\ value.v = <<>>
IsArray(value) == value.t = "array"

\* value.length: a TypeError on null and undefined, undefined on numbers and
\* booleans, the length of strings and arrays
HasLength(value) == value.t \in {"string", "array"}
LengthThrows(value) == value.t \in {"null", "undefined"}


\* ------------------------------------------------------ regular expressions
\* A pattern is a sequence of tokens [neg, set, plus]: one character inside
\* (neg = FALSE) or outside (neg = TRUE) the set, once or one-or-more times.
\* The whole input must be matched (the pattern is anchored with ^ and $).
ClassHas(tk, c) == IF tk.neg THEN c \notin tk.set ELSE c \in tk.set

RECURSIVE RegexMatch(_, _)
RegexMatch(pat, s) ==
  IF pat = <<>> THEN s = <<>>
  ELSE LET tk == Head(pat)
       IN IF tk.plus
            THEN \E k \in 1..Len(s) :
                   /\ \A i \in 1..k : ClassHas(tk, s[i])
                   /\ RegexMatch(Tail(pat), SubSeq(s, k + 1, Len(s)))
            ELSE /\ s # <<>>
                 /\ ClassHas(tk, Head(s))
                 /\ RegexMatch(Tail(pat), Tail(s))

\* RegExp.prototype.test(value): the argument is converted with ToString
RegexTest(pat, value) == RegexMatch(pat, JsToString(value))

\* the pattern with the dot left unescaped: /^[^\s@]+@[^\s@]+.[^\s@]+$/
emailRegexUnescapedDot ==
  << [neg |-> TRUE, set |-> Whitespace \cup {"@"}, plus |-> TRUE],
     [neg |-> FALSE, set |-> {"@"}, plus |-> FALSE],
     [neg |-> TRUE, set |-> Whitespace \cup {"@"}, plus |-> TRUE],
     [neg |-> TRUE, set |-> {}, plus |-> FALSE],
     [neg |-> TRUE, set |-> Whitespace \cup {"@"}, plus |-> TRUE] >>

\* /^[^\s@]+@[^\s@]+\.[^\s@]+$/
emailRegex ==
  << [neg |-> TRUE, set |-> Whitespace \cup {"@"}, plus |-> TRUE],
     [neg |-> FALSE, set |-> {"@"}, plus |-> FALSE],
     [neg |-> TRUE, set |-> Whitespace \cup {"@"}, plus |-> TRUE],
     [neg |-> FALSE, set |-> {"."}, plus |-> FALSE],
     [neg |-> TRUE, set |-> Whitespace \cup {"@"}, plus |-> TRUE] >>

\* --------------------------------------------------------- rule constructors
\* A ValidationRule is [kind, n, message]; kind and n select the predicate.
required(fieldName) ==
  [kind |-> "required", n |-> 0, message |-> fieldName \o " is required"]

email ==
  [kind |-> "email", n |-> 0, message |-> "Please enter a valid email address"]

minLength(length) ==
  [kind |-> "minLength", n |-> length,
   message |-> "Must be at least " \o ToString(length) \o " characters"]

maxLength(length) ==
  [kind |-> "maxLength", n |-> length,
   message |-> "Must not exceed " \o ToString(length) \o " characters"]

numeric ==
  [kind |-> "numeric", n |-> 0, message |-> "Must be a number"]

positiveNumber ==
  [kind |-> "positiveNumber", n |-> 0, message |-> "Must be a positive number"]

maxValue(max) ==
  [kind |-> "maxValue", n |-> max, message |-> "Must not exceed " \o ToString(max)]

minValue(min) ==
  [kind |-> "minValue", n |-> min, message |-> "Must be at least " \o ToString(min)]

\* ----------------------------------------------------------- rule predicates
\* required without the trim of strings
requiredValidateNoTrim(value) ==
  IF IsArray(value) THEN Len(value.v) > 0
  ELSE value.t # "null" /\ value.t # "undefined" /\ ~IsEmptyStringValue(value)

requiredValidate(value) ==
  IF IsArray(value) THEN Len(value.v) > 0
  ELSE IF value.t = "string" THEN Len(Trim(value.v)) > 0
  ELSE value.t # "null" /\ value.t # "undefined" /\ ~IsEmptyStringValue(value)

emailValidate(value) == RegexTest(emailRegex, value)

\* value.length >= length; a comparison with undefined is false
minLengthValidate(length, value) == HasLength(value) /\ Len(value.v) >= length

maxLengthValidate(length, value) == HasLength(value) /\ Len(value.v) <= length

numericValidate(value) == ~isNaN(value) /\ ~IsEmptyStringValue(value)

\* positiveNumber with >= in place of >
positiveNumberValidateOrZero(value) == ~isNaN(value) /\ NumGe(Number(value), 0)

positiveNumberValidate(value) == ~isNaN(value) /\ NumGt(Number(value), 0)

maxValueValidate(max, value) == ~isNaN(value) /\ NumLe(Number(value), max)

minValueValidate(min, value) == ~isNaN(value) /\ NumGe(Number(value), min)

\* rule.validate(value) raises a TypeError
RuleThrows(rule, value) ==
  rule.kind \in {"minLength", "maxLength"} /\ LengthThrows(value)

\* rule.validate(value) when it returns
RuleReturns(rule, value) ==
  CASE rule.kind = "required" -> requiredValidate(value)
    [] rule.kind = "email" -> emailValidate(value)
    [] rule.kind = "minLength" -> minLengthValidate(rule.n, value)
    [] rule.kind = "maxLength" -> maxLengthValidate(rule.n, value)
    [] rule.kind = "numeric" -> numericValidate(value)
    [] rule.kind = "positiveNumber" -> positiveNumberValidate(value)
    [] rule.kind = "maxValue" -> maxValueValidate(rule.n, value)
    [] rule.kind = "minValue" -> minValueValidate(rule.n, value)

\* outcome of the call rule.validate(value): "true", "false" or "throw"
RuleOutcome(rule, value) ==
  IF RuleThrows(rule, value) THEN "throw"
  ELSE IF RuleReturns(rule, value) THEN "true" ELSE "false"

\* ---------------------------------------------------------- analysis trees
\* A JSON object is [t |-> "object", v |-> <<[key, value], ...>>] in insertion
\* order; a JSON array is [t |-> "array", v |-> <<value, ...>>]. Keys, like
\* strings, are sequences of one-character strings; a path is a sequence of keys.
JsonObj(entries) == [t |-> "object", v |-> entries]
JsonArr(items) == [t |-> "array", v |-> items]

\* Object.entries(data) as [key, value] records: own keys of an object, the
\* indices of an array, the character positions of a string, nothing for a
\* number or a boolean (null and undefined raise a TypeError)
ObjectEntries(data) ==
  CASE data.t = "object" -> data.v
    [] data.t = "array" ->
         [i \in 1..Len(data.v) |-> [key |-> NatToString(i - 1), value |-> data.v[i]]]
    [] data.t = "string" ->
         [i \in 1..Len(data.v) |->
            [key |-> NatToString(i - 1), value |-> JsStr(<<data.v[i]>>)]]
    [] OTHER -> <<>>

\* isObject of NestedCard treating only plain objects as containers
IsObjectNoArray(data) == data.t = "object"

\* data !== null && typeof data === 'object'
IsObject(data) == data.t \in {"object", "array"}

\* String.prototype.toUpperCase on one character
ToUpper(c) ==
  CASE c = "a" -> "A" [] c = "b" -> "B" [] c = "c" -> "C" [] c = "x" -> "X"
    [] OTHER -> c

\* key.split('_')
RECURSIVE Split(_)
Split(key) ==
  IF \E i \in 1..Len(key) : key[i] = "_"
    THEN LET i == CHOOSE i \in 1..Len(key) :
                    key[i] = "_" /\ \A j \in 1..(i - 1) : key[j] # "_"
         IN <<SubSeq(key, 1, i - 1)>> \o Split(SubSeq(key, i + 1, Len(key)))
    ELSE <<key>>

\* word.charAt(0).toUpperCase() + word.slice(1)
Capitalize(word) ==
  IF word = <<>> THEN <<>> ELSE <<ToUpper(Head(word))>> \o Tail(word)

\* words.join(' ')
RECURSIVE JoinWords(_)
JoinWords(words) ==
  IF Len(words) = 1 THEN words[1]
  ELSE words[1] \o <<" ">> \o JoinWords(Tail(words))

\* formatTitle(key), and the same expression inside NestedCard.entries
formatTitle(key) ==
  JoinWords([i \in 1..Len(Split(key)) |-> Capitalize(Split(key)[i])])

\* NestedCard.entries: {key: display key, originalKey, value} per entry
NcEntries(data) ==
  IF ~IsObject(data) THEN <<>>
  ELSE [i \in 1..Len(ObjectEntries(data)) |->
          [key |-> formatTitle(ObjectEntries(data)[i].key),
           originalKey |-> ObjectEntries(data)[i].key,
           value |-> ObjectEntries(data)[i].value]]

\* ContractAnalysisDisplay.sections: {title, key, value} per top-level entry
Sections(analysis) ==
  [i \in 1..Len(ObjectEntries(analysis)) |->
     [title |-> formatTitle(ObjectEntries(analysis)[i].key),
      key |-> ObjectEntries(analysis)[i].key,
      value |-> ObjectEntries(analysis)[i].value]]

\* :path="[...currentPath, entry.originalKey]" of the nested NestedCard
ChildPath(currentPath, entry) == currentPath \o <<entry.originalKey>>

\* the path of a leaf event built from the display key
LeafPathDisplayKey(currentPath, entry) == currentPath \o <<entry.key>>

\* path: [...currentPath.value, entry.originalKey] of handleLeafClick
LeafPath(currentPath, entry) == currentPath \o <<entry.originalKey>>

\* the NestedCard instances below (and including) the card with these props
RECURSIVE NcCards(_, _, _)
NcCards(title, data, path) ==
  {[title |-> title, data |-> data, path |-> path]}
  \cup UNION {NcCards(NcEntries(data)[i].key, NcEntries(data)[i].value,
                      ChildPath(path, NcEntries(data)[i])) :
                i \in {j \in 1..Len(NcEntries(data)) : IsObject(NcEntries(data)[j].value)}}

\* every NestedCard instance that ContractAnalysisDisplay renders
AllCards(analysis) ==
  UNION {NcCards(Sections(analysis)[i].title, Sections(analysis)[i].value,
                 <<Sections(analysis)[i].key>>) :
           i \in 1..Len(Sections(analysis))}

\* @leaf-click="$emit('leaf-click', $event)" and
\* ContractAnalysisDisplay.handleLeafClick: the event is handed on as it is
Forward(event) == event

\* NestedCard.handleLeafClick(entry) in the card with path currentPath
NcLeafEvent(currentPath, entry) ==
  [type |-> "leaf-click", key |-> entry.key, value |-> entry.value,
   path |-> LeafPath(currentPath, entry)]

\* NestedCard.handleTitleClick in a card whose data is no object
NcTitleEvent(card) ==
  [type |-> "leaf-click", key |-> card.title, value |-> card.data,
   path |-> card.path]

\* JsonTreeViewer.handleNodeClick: path is `${depth}.${label}`, or the label
\* at depth 0 (the label of the root is undefined, shown here as empty)
JtNodeEvent(label, data, depth) ==
  [type |-> "node-click", label |-> label, value |-> data,
   path |-> IF depth # 0 THEN NatToString(depth) \o <<".">> \o label ELSE label]

\* the value the key path leads to from data, following own keys and indices
RECURSIVE At(_, _)
At(data, path) ==
  IF path = <<>> THEN data
  ELSE LET es == ObjectEntries(data)
           i == CHOOSE i \in 1..Len(es) : es[i].key = Head(path)
       IN At(es[i].value, Tail(path))

\* the key path exists in data
RECURSIVE HasPath(_, _)
HasPath(data, path) ==
  \/ path = <<>>
  \/ /\ data.t \in {"object", "array", "string"}
     /\ \E i \in 1..Len(ObjectEntries(data)) :
          /\ ObjectEntries(data)[i].key = Head(path)
          /\ HasPath(ObjectEntries(data)[i].value, Tail(path))

\* the key paths of the containers at or below data, data being at path
RECURSIVE ContainerPaths(_, _)
ContainerPaths(data, path) ==
  IF ~IsObject(data) THEN {}
  ELSE {path} \cup UNION {ContainerPaths(ObjectEntries(data)[i].value,
                                         path \o <<ObjectEntries(data)[i].key>>) :
                            i \in 1..Len(ObjectEntries(data))}

\* p is a proper prefix of q
IsProperPrefix(p, q) == Len(p) < Len(q) /\ SubSeq(q, 1, Len(p)) = p

\* ------------------------------------------------------------- input sets
SeqsUpTo(S, n) == UNION {[1..k -> S] : k \in 0..n}

NumAlphabet == {"0", "5", "-", ".", " ", "a"}
EmailAlphabet == {"a", "@", ".", " "}

NotAnEmail == <<"n", "o", "t", "-", "a", "n", "-", "e", "m", "a", "i", "l">>
UserAtExampleCom ==
  <<"u", "s", "e", "r", "@", "e", "x", "a", "m", "p", "l", "e", ".", "c", "o", "m">>
EightFives == <<"5", "5", "5", "5", "5", "5", "5", "5">>

NamedStrings ==
  {NotAnEmail, UserAtExampleCom, EightFives, InfinityStr, <<"-">> \o InfinityStr,
   <<"a", "@", "a", ".", "a", ".">>, <<"a", "@", "a", ".", ".">>}

StringValues ==
  {JsStr(s) : s \in SeqsUpTo(NumAlphabet, MaxNumStrLen)
                      \cup SeqsUpTo(EmailAlphabet, MaxEmailStrLen)
                      \cup NamedStrings}

OtherValues ==
  {JsNull, JsUndefined, JsBool(TRUE), JsBool(FALSE),
   JsNum(Fin(0, 0)), JsNum(Fin(5, 0)), JsNum(Fin(-5, 0)),
   JsNum(NaN), JsNum(PosInf), JsNum(NegInf),
   JsArr(<<>>), JsArr(<< <<"5">> >>), JsArr(<< <<"a">>, <<"a">> >>),
   JsArr(<< <<"a", "@", "a", ".", "a">> >>)}

\* values the rule predicates are applied to
RuleValues == StringValues \cup OtherValues

\* rules the predicates are drawn from
RulePool ==
  {required("Email"), required("Loan amount"), email, minLength(2), minLength(8),
   maxLength(2), numeric, positiveNumber, maxValue(5), minValue(5)}

\* values of the form fields handed to validate
FormValues ==
  {JsNull, JsStr(<<>>), JsStr(<<"0">>), JsStr(<<"-", "5">>), JsStr(<<"5">>),
   JsStr(EightFives)}

\* rule sets: the fields amount and password, each absent or with a rule list
AmountPool == {required("Loan amount"), positiveNumber, minLength(8)}

AmountEntries ==
  {<<>>} \cup {<<[field |-> "amount", fieldRules |-> l]>> :
                 l \in SeqsUpTo(AmountPool, MaxRules)}

PasswordEntries ==
  {<<>>} \cup {<<[field |-> "password", fieldRules |-> l]>> :
                 l \in {<<required("Password")>>,
                        <<required("Password"), minLength(8)>>}}

RuleSets == {a \o p : a \in AmountEntries, p \in PasswordEntries}

\* records: any subset of the fields; a field that is no key of the rule set
\* in use is a field the rules do not mention
FormFields == {"amount", "password"}

FormDatas == UNION {[S -> FormValues] : S \in SUBSET FormFields}

\* ------------------------------------------------------------------- state
VARIABLES
  rules,           \* the ValidationRules given to useFormValidation, as Object.entries lists them
  errors,          \* errors.value
  prevErrors,      \* errors.value before the most recent call (history)
  lastOp,          \* the most recent call: "none", "validate" or "clearErrors"
  lastData,        \* the formData of the most recent validate call
  lastRet,         \* what it returned: "true", "false", "throw" (nothing returned) or "none"
  appliedRule,     \* a rule whose predicate is called directly
  appliedValue,    \* the value it is called with
  appliedOutcome   \* "pending", or the outcome of appliedRule.validate(appliedValue)

engineVars == <<rules, errors, prevErrors, lastOp, lastData, lastRet>>
ruleVars == <<appliedRule, appliedValue, appliedOutcome>>

VARIABLES
  component,       \* the tree on show: "NestedCard" (under ContractAnalysisDisplay) or "JsonTreeViewer"
  analysis,        \* the payload the tree renders
  expanded,        \* isExpanded of the component instance of each container, by key path
  emitted,         \* the event the owner of the tree received from the last click, or NoEvent
  lastClick,       \* the last click: [kind, path] (history)
  toggleHist       \* consecutive header clicks on one container: [path, before, count] (history)

VARIABLES
  fmtValue,        \* a leaf value to display
  fmtResult        \* "pending", or what the two leaf formatters make of it

VARIABLES
  storedRole,      \* localStorage userRole: [has, value]
  route,           \* the route the router is on
  lastNav          \* the last router step: [op, to, role at that moment] (history)

VARIABLES
  explanationLoading,    \* AICenter refs of the explanation modal
  selectedTerm,
  showExplanationModal,
  explanation,
  explanationError,
  explanationTimeout,    \* 0 (unset), or the number of the call whose timer it names
  calls,                 \* the handleLeafClick calls that got past the loading check: [key, pc]
  lastLeafClick          \* what the last leaf click did: [loading, term] before it, or NoClick (history)

VARIABLES
  loadingState,          \* one useLoadingState instance: [isLoading, error, success]
  successAge,            \* whole seconds since the last setSuccess call, capped
  timers,                \* the seconds left of the pending auto-clear timers, oldest first
  page,                  \* the view that owns the instance
  handler,               \* the handler in flight: [pc, finally]
  lastLoad               \* what the last step did and the state before it (history)

VARIABLES
  contractText,          \* AICenter refs of the contract analysis
  rawAnalysis,
  isAnalyzing,
  analyzeError,          \* the ref named error
  progress,
  currentStage,
  analyses,              \* the analyzeContract calls still running: [pc, ok, sim]
  lastAnalyze            \* the last step, and the call that completed in it (history)

VARIABLES
  localStorage,          \* the entries of localStorage: key -> string
  userRoleRef,           \* App refs: userRole
  userFirstName,
  navPath,               \* the path the router of App is on
  logouts,               \* the handleLogout calls whose request is in flight
  lastLogout             \* the last step and the state before it (history)

VARIABLES
  selectedLoan,          \* LoanApplication refs; selectedLoan is a loan id, 0 for null
  isUpdateMode,
  loanForm,              \* the ref formData
  showApplicationModal,
  showDeleteModal,
  showDetailsModal,
  loanRequest,           \* the request the view awaits: [pc, method, id]
  updateLoan,            \* the id of the loan handleUpdate loaded into the form, or 0 (history)
  lastLoanOp             \* the last request sent: [op, id, loaded] (history)

treeVars == <<component, analysis, expanded, emitted, lastClick, toggleHist>>
loadingVars == <<loadingState, successAge, timers, page, handler, lastLoad>>
analyzeVars == <<contractText, rawAnalysis, isAnalyzing, analyzeError, progress,
                 currentStage, analyses, lastAnalyze>>
logoutVars == <<localStorage, userRoleRef, userFirstName, navPath, logouts, lastLogout>>
loanVars == <<selectedLoan, isUpdateMode, loanForm, showApplicationModal, showDeleteModal,
              showDetailsModal, loanRequest, updateLoan, lastLoanOp>>
pageVars == <<loadingVars, analyzeVars, logoutVars, loanVars>>
fmtVars == <<fmtValue, fmtResult>>
routerVars == <<storedRole, route, lastNav>>
aiVars == <<explanationLoading, selectedTerm, showExplanationModal, explanation,
            explanationError, explanationTimeout, calls, lastLeafClick>>
validationVars == <<rules, errors, prevErrors, lastOp, lastData, lastRet,
                    appliedRule, appliedValue, appliedOutcome>>
vars == <<validationVars, treeVars, fmtVars, routerVars, aiVars, pageVars>>

NoEvent == [type |-> "none"]
NoClick == [kind |-> "none", path |-> <<>>]
NoToggle == [path |-> <<>>, before |-> <<>>, count |-> 0]
NoRole == [has |-> FALSE, value |-> ""]
NoNav == [op |-> "none", to |-> "", role |-> NoRole]
NoFormat == [by |-> "none", result |-> [threw |-> FALSE, text |-> <<>>]]
NoLeafClick == [kind |-> "none", loading |-> FALSE, term |-> "", calls |-> <<>>]

\* the parts of the state a specification leaves alone
ValidationIdle ==
  /\ rules = <<>>
  /\ errors = [x \in {} |-> ""]
  /\ prevErrors = [x \in {} |-> ""]
  /\ lastOp = "none"
  /\ lastData = [x \in {} |-> ""]
  /\ lastRet = "none"
  /\ appliedRule = email
  /\ appliedValue = JsUndefined
  /\ appliedOutcome = "idle"

TreeIdle ==
  /\ component = "none"
  /\ analysis = JsonObj(<<>>)
  /\ expanded = <<>>
  /\ emitted = NoEvent
  /\ lastClick = NoClick
  /\ toggleHist = NoToggle

FmtIdle == fmtValue = JsUndefined /\ fmtResult = NoFormat

RouterIdle == storedRole = NoRole /\ route = "/" /\ lastNav = NoNav

AiIdle ==
  /\ explanationLoading = FALSE
  /\ selectedTerm = ""
  /\ showExplanationModal = FALSE
  /\ explanation = ""
  /\ explanationError = ""
  /\ explanationTimeout = 0
  /\ calls = <<>>
  /\ lastLeafClick = NoLeafClick

IdleLoadingState == [isLoading |-> FALSE, error |-> "", success |-> ""]
IdleHandler == [pc |-> "idle", finally |-> FALSE]
NoFailure == [kind |-> "none"]
NoLoad == [op |-> "none", before |-> IdleLoadingState, message |-> "", age |-> 0,
           failure |-> NoFailure]

LoadingIdle ==
  /\ loadingState = IdleLoadingState
  /\ successAge = 0
  /\ timers = <<>>
  /\ page = "none"
  /\ handler = IdleHandler
  /\ lastLoad = NoLoad

NullAnalysis == [kind |-> "null"]
NoAnalyze == [op |-> "none", ok |-> FALSE]

AnalyzeIdle ==
  /\ contractText = <<>>
  /\ rawAnalysis = NullAnalysis
  /\ isAnalyzing = FALSE
  /\ analyzeError = ""
  /\ progress = 0
  /\ currentStage = ""
  /\ analyses = <<>>
  /\ lastAnalyze = NoAnalyze

NoEntries == [k \in {} |-> ""]
LoggedOut == [localStorage |-> NoEntries, userRole |-> "", userFirstName |-> "", navPath |-> "/"]
NoLogout == [op |-> "none", before |-> LoggedOut]

LogoutIdle ==
  /\ localStorage = NoEntries
  /\ userRoleRef = ""
  /\ userFirstName = ""
  /\ navPath = "/"
  /\ logouts = 0
  /\ lastLogout = NoLogout

BlankForm == [amount |-> "", purpose |-> "", duration |-> "12"]
NoRequest == [pc |-> "none", method |-> "", id |-> 0]
NoLoanOp == [op |-> "none", id |-> 0, loaded |-> 0]

LoanIdle ==
  /\ selectedLoan = 0
  /\ isUpdateMode = FALSE
  /\ loanForm = BlankForm
  /\ showApplicationModal = FALSE
  /\ showDeleteModal = FALSE
  /\ showDetailsModal = FALSE
  /\ loanRequest = NoRequest
  /\ updateLoan = 0
  /\ lastLoanOp = NoLoanOp

PageIdle == LoadingIdle /\ AnalyzeIdle /\ LogoutIdle /\ LoanIdle

EmptyMap == [x \in {} |-> ""]

\* formData[field]: an absent property reads as undefined
Get(formData, field) ==
  IF field \in DOMAIN formData THEN formData[field] ELSE JsUndefined

\* the assignment with the literal key "field": newErrors.field = message
PutLiteralKey(map, field, message) ==
  [x \in DOMAIN map \cup {"field"} |-> IF x = "field" THEN message ELSE map[x]]

\* newErrors[field] = message
Put(map, field, message) ==
  [x \in DOMAIN map \cup {field} |-> IF x = field THEN message ELSE map[x]]

\* find that looks at the first rule only
FindFirstOnly(fieldRules, value, i) ==
  IF fieldRules = <<>> THEN 0
  ELSE LET o == RuleOutcome(fieldRules[1], value)
       IN IF o = "throw" THEN -1 ELSE IF o = "false" THEN 1 ELSE 0

\* find whose predicate is wrapped in try/catch: a throw counts as a failure
FindThrowIsFailure(fieldRules, value, i) ==
  LET notTrue == {j \in 1..Len(fieldRules) :
                    RuleOutcome(fieldRules[j], value) # "true"}
  IN IF notTrue = {} THEN 0
     ELSE CHOOSE j \in notTrue : \A l \in notTrue : j <= l

\* the last failing rule in place of the first
FindLast(fieldRules, value, i) ==
  LET failing == {j \in 1..Len(fieldRules) :
                    RuleOutcome(fieldRules[j], value) = "false"}
  IN IF \E j \in 1..Len(fieldRules) : RuleOutcome(fieldRules[j], value) = "throw"
       THEN -1
       ELSE IF failing = {} THEN 0
       ELSE CHOOSE j \in failing : \A l \in failing : l <= j

\* filter(...)[0] in place of find: every predicate is called, then the
\* first failing rule is taken
FindFilterFirst(fieldRules, value, i) ==
  LET failing == {j \in 1..Len(fieldRules) :
                    RuleOutcome(fieldRules[j], value) = "false"}
  IN IF \E j \in 1..Len(fieldRules) : RuleOutcome(fieldRules[j], value) = "throw"
       THEN -1
       ELSE IF failing = {} THEN 0
       ELSE CHOOSE j \in failing : \A l \in failing : j <= l

\* fieldRules.find(rule => !rule.validate(value)) from index i on: the index
\* of the first rule that returns false, 0 when none does (undefined), -1
\* when a predicate throws before one is found
RECURSIVE Find(_, _, _)
Find(fieldRules, value, i) ==
  IF i > Len(fieldRules) THEN 0
  ELSE LET o == RuleOutcome(fieldRules[i], value)
       IN IF o = "throw" THEN -1
          ELSE IF o = "false" THEN i
          ELSE Find(fieldRules, value, i + 1)

\* Object.entries(rules).forEach(...) from entry k on, accumulating newErrors
RECURSIVE ForEach(_, _, _, _)
ForEach(entries, formData, k, newErrors) ==
  IF k > Len(entries) THEN [threw |-> FALSE, newErrors |-> newErrors]
  ELSE LET field == entries[k].field
           fieldRules == entries[k].fieldRules
           failing == Find(fieldRules, Get(formData, field), 1)
       IN IF failing = -1 THEN [threw |-> TRUE, newErrors |-> newErrors]
          ELSE IF failing > 0
            THEN ForEach(entries, formData, k + 1,
                         Put(newErrors, field, fieldRules[failing].message))
            ELSE ForEach(entries, formData, k + 1, newErrors)

\* errors.value = {...errors.value, ...newErrors}
AssignMerged(old, newErrors) ==
  [x \in DOMAIN old \cup DOMAIN newErrors |->
     IF x \in DOMAIN newErrors THEN newErrors[x] ELSE old[x]]

\* errors.value = newErrors, when the loop completed
Assign(old, newErrors) == newErrors

\* validate(formData)
Validate(formData) ==
  \E r \in {ForEach(rules, formData, 1, EmptyMap)} :
     /\ errors' = IF r.threw THEN errors ELSE Assign(errors, r.newErrors)
     /\ lastRet' = IF r.threw THEN "throw"
                   ELSE IF DOMAIN r.newErrors = {} THEN "true" ELSE "false"
     /\ prevErrors' = errors
     /\ lastOp' = "validate"
     /\ lastData' = formData
     /\ UNCHANGED <<rules, appliedRule, appliedValue, appliedOutcome>>
     /\ UNCHANGED <<treeVars, fmtVars, routerVars, aiVars, pageVars>>

\* clearErrors that leaves errors.value as it is
ClearErrorsKeeps ==
  /\ errors' = errors
  /\ prevErrors' = errors
  /\ lastOp' = "clearErrors"
  /\ lastRet' = "none"
  /\ UNCHANGED <<rules, lastData, appliedRule, appliedValue, appliedOutcome>>
  /\ UNCHANGED <<treeVars, fmtVars, routerVars, aiVars, pageVars>>

\* clearErrors()
ClearErrors ==
  /\ errors' = EmptyMap
  /\ prevErrors' = errors
  /\ lastOp' = "clearErrors"
  /\ lastRet' = "none"
  /\ UNCHANGED <<rules, lastData, appliedRule, appliedValue, appliedOutcome>>
  /\ UNCHANGED <<treeVars, fmtVars, routerVars, aiVars, pageVars>>

\* hasError(field): !!errors.value[field]
hasError(field) == field \in DOMAIN errors /\ errors[field] # ""

\* getError(field): errors.value[field] || ''
getError(field) ==
  IF field \in DOMAIN errors /\ errors[field] # "" THEN errors[field] ELSE ""

\* rule.validate(value) called directly
ApplyRule ==
  /\ appliedOutcome = "pending"
  /\ appliedOutcome' = RuleOutcome(appliedRule, appliedValue)
  /\ UNCHANGED <<rules, errors, prevErrors, lastOp, lastData, lastRet,
                 appliedRule, appliedValue>>
  /\ UNCHANGED <<treeVars, fmtVars, routerVars, aiVars, pageVars>>

\* --------------------------------------------------------- specifications
\* the composable: useFormValidation(rules) followed by any calls
Init ==
  /\ rules \in RuleSets
  /\ errors = EmptyMap
  /\ prevErrors = EmptyMap
  /\ lastOp = "none"
  /\ lastData = EmptyMap
  /\ lastRet = "none"
  /\ appliedRule = email
  /\ appliedValue = JsUndefined
  /\ appliedOutcome = "idle"
  /\ TreeIdle /\ FmtIdle /\ RouterIdle /\ AiIdle /\ PageIdle

ValidateCall == \E formData \in FormDatas : Validate(formData)

Next == ValidateCall \/ ClearErrors

Spec == Init /\ [][Next]_vars

\* the rule predicates: one rule applied to one value
InitRules ==
  /\ rules = <<>>
  /\ errors = EmptyMap
  /\ prevErrors = EmptyMap
  /\ lastOp = "none"
  /\ lastData = EmptyMap
  /\ lastRet = "none"
  /\ appliedRule \in RulePool
  /\ appliedValue \in RuleValues
  /\ appliedOutcome = "pending"
  /\ TreeIdle /\ FmtIdle /\ RouterIdle /\ AiIdle /\ PageIdle

NextRules == ApplyRule

SpecRules == InitRules /\ [][NextRules]_vars

TypeOK ==
  /\ lastOp \in {"none", "validate", "clearErrors"}
  /\ lastRet \in {"none", "true", "false", "throw"}
  /\ appliedOutcome \in {"idle", "pending", "true", "false", "throw"}

\* ------------------------------------------------- the engine's properties
\* the keys of a rule set and the rule list of a key
Keys(R) == {R[k].field : k \in DOMAIN R}
RulesOf(R, f) == R[CHOOSE k \in DOMAIN R : R[k].field = f].fieldRules

\* the indices of the rules of field f that return false / true for D[f]
FailingIdx(R, D, f) ==
  {i \in 1..Len(RulesOf(R, f)) : RuleOutcome(RulesOf(R, f)[i], Get(D, f)) = "false"}
AllRulesPass(R, D, f) ==
  \A i \in 1..Len(RulesOf(R, f)) : RuleOutcome(RulesOf(R, f)[i], Get(D, f)) = "true"
FirstFailing(R, D, f) ==
  CHOOSE i \in FailingIdx(R, D, f) : \A j \in FailingIdx(R, D, f) : i <= j
FailingFields(R, D) == {f \in Keys(R) : FailingIdx(R, D, f) # {}}

\* the most recent call was a validate call that returned a value
Returned == lastOp = "validate" /\ lastRet \in {"true", "false"}

\* C1: validate(D) returns true if and only if, for every field f that is a
\* key of the rule set, every rule of f returns true for D[f] (an absent
\* field read as undefined); the fields of D that are no keys take no part.
C1_ValidateTrueIffAllRulesPass ==
  lastOp = "validate" =>
    (lastRet = "true" <=> \A f \in Keys(rules) : AllRulesPass(rules, lastData, f))

\* a call that returned true although D holds a field outside the rule set
\* and the rule set has a rule
C1_Witness ==
  /\ lastOp = "validate"
  /\ lastRet = "true"
  /\ \E f \in Keys(rules) : RulesOf(rules, f) # <<>>
  /\ \E g \in DOMAIN lastData : g \notin Keys(rules)

\* C2: after validate(D) has returned, for every field of the rule set with
\* at least one failing rule, errors[f] is the message of the lowest-index
\* rule that returns false for D[f].
C2_FirstFailingMessage ==
  Returned =>
    \A f \in FailingFields(rules, lastData) :
      /\ f \in DOMAIN errors
      /\ errors[f] = RulesOf(rules, f)[FirstFailing(rules, lastData, f)].message

\* a field with two failing rules of different messages, the first reported
C2_Witness ==
  /\ Returned
  /\ \E f \in FailingFields(rules, lastData) :
       \E i, j \in FailingIdx(rules, lastData, f) :
         /\ i < j
         /\ RulesOf(rules, f)[i].message # RulesOf(rules, f)[j].message
         /\ f \in DOMAIN errors
         /\ errors[f] = RulesOf(rules, f)[i].message

\* C3: after validate(D) has returned, the keys of the held error map are
\* exactly the rule-set fields with at least one failing rule; and no key
\* outside the rule set is ever in the map.
C3_ErrorKeysAreFailingFields ==
  /\ DOMAIN errors \subseteq Keys(rules)
  /\ Returned => DOMAIN errors = FailingFields(rules, lastData)

\* one field of the rule set passes and is absent, another fails and is present
C3_Witness ==
  /\ Returned
  /\ \E f, g \in Keys(rules) :
       /\ RulesOf(rules, f) # <<>>
       /\ AllRulesPass(rules, lastData, f)
       /\ f \notin DOMAIN errors
       /\ g \in DOMAIN errors

\* the error map the rule set prescribes for the record D
ErrorsFor(R, D) ==
  [f \in FailingFields(R, D) |-> RulesOf(R, f)[FirstFailing(R, D, f)].message]

\* C4: the held error map is a function of the most recent completed call
\* alone: after validate(D) it is the map computed for D, after clearErrors
\* (and before any call) it is empty; nothing is kept from earlier calls.
C4_ErrorsOfLastCallOnly ==
  /\ Returned => errors = ErrorsFor(rules, lastData)
  /\ lastOp \in {"none", "clearErrors"} => errors = EmptyMap

\* an error recorded by the earlier call is gone after a validate call that
\* finds the field valid
C4_Witness ==
  /\ Returned
  /\ \E f \in DOMAIN prevErrors :
       /\ f \notin DOMAIN errors
       /\ AllRulesPass(rules, lastData, f)

\* C5: clearErrors() leaves the held error map empty whatever it held, and
\* afterwards hasError(f) is false and getError(f) is "" for every field.
C5_ClearErrorsEmpties ==
  lastOp = "clearErrors" =>
    /\ errors = EmptyMap
    /\ \A f \in FormFields \cup Keys(rules) : ~hasError(f) /\ getError(f) = ""

\* clearErrors called on a map that held errors
C5_Witness ==
  /\ lastOp = "clearErrors"
  /\ prevErrors # EmptyMap
  /\ errors = EmptyMap

\* ---------------------------------------------------- the rules' properties
\* the rule set {amount: [required('Loan amount'), positiveNumber()]}
LoanAmountRules ==
  <<[field |-> "amount",
     fieldRules |-> <<required("Loan amount"), positiveNumber>>]>>

\* the value is a string holding a decimal number greater than zero
IsPositiveDecimalString(value) ==
  /\ value.t = "string"
  /\ Number(value).k = "fin"
  /\ Number(value).m > 0

\* C6: with the rule set {amount: [required('Loan amount'), positiveNumber()]},
\* validate({amount: "0"}) leaves exactly {amount: "Must be a positive number"}
\* (required passes, positiveNumber fails), "-5" fails in the same way and "5"
\* passes; a present, non-blank amount passes only if it parses as a number
\* strictly greater than zero.
C6_PositiveNumberScenario ==
  (rules = LoanAmountRules /\ lastOp = "validate") =>
    LET amount == Get(lastData, "amount")
    IN /\ amount \in {JsStr(<<"0">>), JsStr(<<"-", "5">>)} =>
            /\ lastRet = "false"
            /\ errors = [f \in {"amount"} |-> "Must be a positive number"]
       /\ amount = JsStr(<<"5">>) => (lastRet = "true" /\ errors = EmptyMap)
       /\ lastRet = "true" => IsPositiveDecimalString(amount)
       /\ (lastRet = "false" /\ errors["amount"] = "Loan amount is required") =>
            (amount.t \in {"null", "undefined"} \/ amount = JsStr(<<>>))

\* validate({amount: "0"}) has run under that rule set
C6_Witness ==
  /\ rules = LoanAmountRules
  /\ lastOp = "validate"
  /\ Get(lastData, "amount") = JsStr(<<"0">>)
  /\ errors = [f \in {"amount"} |-> "Must be a positive number"]

\* the rule has been applied to the value
Applied(kind) == appliedRule.kind = kind /\ appliedOutcome # "pending"

\* a string of white space only (the empty string included)
IsBlankString(value) ==
  value.t = "string" /\ \A i \in 1..Len(value.v) : value.v[i] \in Whitespace

\* C7: required(label) has the message "<label> is required" and fails
\* exactly for null, undefined, the empty string, a string of white space
\* only and the empty array; every other value passes, the number 0, the
\* boolean false and the string "0" among them; it never throws.
C7_RequiredFailsOnBlank ==
  /\ required("Email").message = "Email is required"
  /\ required("Loan amount").message = "Loan amount is required"
  /\ Applied("required") =>
       /\ appliedOutcome \in {"true", "false"}
       /\ appliedOutcome = "false" <=>
            \/ appliedValue.t \in {"null", "undefined"}
            \/ IsBlankString(appliedValue)
            \/ (appliedValue.t = "array" /\ Len(appliedValue.v) = 0)
       /\ (appliedValue \in {JsNum(Fin(0, 0)), JsBool(FALSE), JsStr(<<"0">>)}) =>
            appliedOutcome = "true"

\* required applied to a non-empty string of white space only
C7_Witness ==
  /\ Applied("required")
  /\ appliedValue = JsStr(<<" ", " ">>)
  /\ appliedOutcome = "false"

\* the value parses to a finite number: its numeric conversion is neither NaN
\* nor an infinity, the empty string being no number
ParsesAsFiniteNumber(value) ==
  ~IsEmptyStringValue(value) /\ Number(value).k = "fin"

\* C8: numeric() passes if and only if the value parses to a finite number.
C8_NumericIffFinite ==
  Applied("numeric") =>
    (appliedOutcome = "true" <=> ParsesAsFiniteNumber(appliedValue))

\* the values minLength and maxLength are not meant for
NotStringLike(value) == value.t \in {"number", "boolean", "null", "undefined"}

\* C9: minLength(n) and maxLength(n) compare the length of a string with n,
\* return false for every value that is not string-like (a number, null and
\* undefined among them) and never throw.
C9_LengthRulesNeverThrow ==
  (Applied("minLength") \/ Applied("maxLength")) =>
    /\ appliedOutcome \in {"true", "false"}
    /\ NotStringLike(appliedValue) => appliedOutcome = "false"
    /\ appliedValue.t = "string" =>
         (appliedOutcome = "true" <=>
            IF appliedRule.kind = "minLength"
              THEN Len(appliedValue.v) >= appliedRule.n
              ELSE Len(appliedValue.v) <= appliedRule.n)

\* the positions of the character c in s
Positions(s, c) == {i \in 1..Len(s) : s[i] = c}
NoWhitespace(s) == \A i \in 1..Len(s) : s[i] \notin Whitespace

\* local@domain.tld read strictly: no white space, a single '@' with a
\* non-empty run before it, and the part after it split by its LAST '.' into
\* a non-empty domain and a non-empty tld
HasLastDotShape(s) ==
  /\ NoWhitespace(s)
  /\ Cardinality(Positions(s, "@")) = 1
  /\ LET at == CHOOSE i \in Positions(s, "@") : TRUE
         dots == {i \in Positions(s, ".") : i > at}
     IN /\ at > 1
        /\ dots # {}
        /\ LET last == CHOOSE i \in dots : \A j \in dots : j <= i
           IN last > at + 1 /\ last < Len(s)

\* the same with SOME '.' of the part after the '@' that is neither its first
\* nor its last character
HasInnerDotShape(s) ==
  /\ NoWhitespace(s)
  /\ Cardinality(Positions(s, "@")) = 1
  /\ LET at == CHOOSE i \in Positions(s, "@") : TRUE
     IN /\ at > 1
        /\ \E i \in Positions(s, ".") : i > at + 1 /\ i < Len(s)

\* C10 as stated: email() passes exactly for the values with a non-empty run
\* free of white space and '@' before the single '@', one after it, and one
\* after the last '.'.
C10_EmailLastDotShape ==
  Applied("email") =>
    (appliedOutcome = "true" <=> HasLastDotShape(JsToString(appliedValue)))

\* C10 amended: email() passes exactly for the values whose string form has no
\* white space, a single '@' with a non-empty run before it, and after the
\* '@' some '.' with at least one character before it and one after it; the
\* run after the last '.' may be empty. "not-an-email" fails and
\* "user@example.com" passes; email() never throws.
C10_EmailInnerDotShape ==
  Applied("email") =>
    /\ appliedOutcome \in {"true", "false"}
    /\ appliedOutcome = "true" <=> HasInnerDotShape(JsToString(appliedValue))
    /\ appliedValue = JsStr(NotAnEmail) => appliedOutcome = "false"
    /\ appliedValue = JsStr(UserAtExampleCom) => appliedOutcome = "true"

\* email() has passed a value that ends with '.'
C10_Witness ==
  /\ Applied("email")
  /\ appliedValue = JsStr(<<"a", "@", "a", ".", "a", ".">>)
  /\ appliedOutcome = "true"

\* a predicate of field f throws for D[f] before any rule of f has failed
ThrowsFirst(R, D, f) ==
  \E i \in 1..Len(RulesOf(R, f)) :
    /\ RuleOutcome(RulesOf(R, f)[i], Get(D, f)) = "throw"
    /\ \A j \in 1..(i - 1) : RuleOutcome(RulesOf(R, f)[j], Get(D, f)) = "true"

\* C11: when a rule predicate throws during validate(D), the exception
\* reaches the caller (it is not turned into a validation error), validate
\* returns no value, and the held error map keeps the value it had before
\* the call; a call in which no evaluated predicate throws does return.
C11_ThrowPropagates ==
  lastOp = "validate" =>
    /\ (\E f \in Keys(rules) : ThrowsFirst(rules, lastData, f)) =>
         (lastRet = "throw" /\ errors = prevErrors)
    /\ lastRet = "throw" => \E f \in Keys(rules) : ThrowsFirst(rules, lastData, f)

\* a validate call threw while the map held an error, which it still holds
C11_Witness ==
  /\ lastOp = "validate"
  /\ lastRet = "throw"
  /\ prevErrors # EmptyMap
  /\ errors = prevErrors

\* ---------------------------------------------------------- the tree views
KeyA == <<"a">>
KeyB == <<"b">>
KeyBC == <<"b", "_", "c">>
TreeScalars == {JsNull, JsNum(Fin(1, 0)), JsStr(<<"x">>)}

\* the JSON values of exactly n nodes
RECURSIVE JsonOfSize(_)
JsonOfSize(n) ==
  IF n = 1 THEN TreeScalars \cup {JsonObj(<<>>), JsonArr(<<>>)}
  ELSE {JsonObj(<<[key |-> k, value |-> c]>>) :
          k \in {KeyA, KeyB, KeyBC}, c \in JsonOfSize(n - 1)}
       \cup {JsonArr(<<c>>) : c \in JsonOfSize(n - 1)}
       \cup UNION {{JsonObj(<<[key |-> KeyA, value |-> c1],
                              [key |-> KeyBC, value |-> c2]>>) :
                      c1 \in JsonOfSize(i), c2 \in JsonOfSize(n - 1 - i)} :
                   i \in 1..(n - 2)}
       \cup UNION {{JsonArr(<<c1, c2>>) :
                      c1 \in JsonOfSize(i), c2 \in JsonOfSize(n - 1 - i)} :
                   i \in 1..(n - 2)}

\* AICenter shows the tree only under v-else of v-if="!rawAnalysis"
Truthy(value) ==
  /\ value.t \notin {"null", "undefined"}
  /\ ~IsEmptyStringValue(value)
  /\ value.t = "number" => (value.v.k # "nan" /\ ~(value.v.k = "fin" /\ value.v.m = 0))
  /\ value.t = "boolean" => value.v

Payloads == {v \in UNION {JsonOfSize(n) : n \in 1..MaxNodes} : Truthy(v)}

\* the key paths of all nodes at or below data, data being at path
RECURSIVE NodePaths(_, _)
NodePaths(data, path) ==
  {path} \cup (IF ~IsObject(data) THEN {}
               ELSE UNION {NodePaths(ObjectEntries(data)[i].value,
                                     path \o <<ObjectEntries(data)[i].key>>) :
                             i \in 1..Len(ObjectEntries(data))})

\* the container instances that hold an isExpanded the user can toggle
InstancePaths(comp, payload) ==
  IF comp = "NestedCard"
    THEN {c.path : c \in {d \in AllCards(payload) : IsObject(d.data)}}
    ELSE ContainerPaths(payload, <<>>)

\* every container above path is expanded: the node at path is on show
\* (v-show in NestedCard) or mounted (v-if in JsonTreeViewer)
Visible(path) ==
  \A q \in DOMAIN expanded : IsProperPrefix(q, path) => expanded[q]

\* the event after n relays up to the owner of the tree
RECURSIVE Relay(_, _)
Relay(event, n) == IF n = 0 THEN event ELSE Relay(Forward(event), n - 1)

\* the record of consecutive header clicks after a click on the container at path
NextToggleHist(path) ==
  IF toggleHist.count = 1 /\ toggleHist.path = path
    THEN [toggleHist EXCEPT !.count = 2]
    ELSE [path |-> path, before |-> expanded, count |-> 1]

\* isExpanded.value = !isExpanded.value in NestedCard: the children stay
\* mounted under v-show
NcToggled(path) == [expanded EXCEPT ![path] = ~@]

\* isExpanded.value = !isExpanded.value in JsonTreeViewer: the children are
\* under v-if, so collapsing unmounts the instances below (their entry keeps
\* the value they had) and expanding mounts new ones, whose isExpanded is true
JtToggled(path) ==
  IF expanded[path] THEN [expanded EXCEPT ![path] = FALSE]
  ELSE [q \in DOMAIN expanded |->
          IF q = path \/ IsProperPrefix(path, q) THEN TRUE ELSE expanded[q]]

\* the NestedCard headers on show
NcHeaders == {card \in AllCards(analysis) : Visible(card.path)}

\* the leaf rows on show: the entries that are no object of the expanded
\* container cards on show
NcLeafRows ==
  UNION {{[card |-> card, entry |-> NcEntries(card.data)[i]] :
            i \in {j \in 1..Len(NcEntries(card.data)) :
                     ~IsObject(NcEntries(card.data)[j].value)}} :
         card \in {c \in NcHeaders : IsObject(c.data) /\ expanded[c.path]}}

\* the event a click on a leaf row hands to the owner of the tree
LeafRowEvent(row) ==
  Relay(NcLeafEvent(row.card.path, row.entry), Len(row.card.path))

\* the event a click on the title of a leaf card hands to the owner
TitleEvent(card) == Relay(NcTitleEvent(card), Len(card.path))

\* the leaf-click events that the clicks now on show can emit
OfferedLeafClicks ==
  {LeafRowEvent(row) : row \in NcLeafRows}
  \cup {TitleEvent(card) : card \in {c \in NcHeaders : ~IsObject(c.data)}}

\* a click on the header of a NestedCard: toggleExpand() on a container,
\* handleTitleClick($event) on a leaf card
NcHeaderClick ==
  /\ component = "NestedCard"
  /\ \E card \in NcHeaders :
       IF IsObject(card.data)
         THEN /\ expanded' = NcToggled(card.path)
              /\ emitted' = NoEvent
              /\ lastClick' = [kind |-> "header", path |-> card.path]
              /\ toggleHist' = NextToggleHist(card.path)
         ELSE /\ emitted' = TitleEvent(card)
              /\ lastClick' = [kind |-> "title", path |-> card.path]
              /\ toggleHist' = NoToggle
              /\ UNCHANGED expanded
  /\ UNCHANGED <<component, analysis>>
  /\ UNCHANGED <<validationVars, fmtVars, routerVars, aiVars, pageVars>>

\* a click on a leaf row of an expanded NestedCard: handleLeafClick(entry)
NcLeafClick ==
  /\ component = "NestedCard"
  /\ \E row \in NcLeafRows :
       /\ emitted' = LeafRowEvent(row)
       /\ lastClick' = [kind |-> "leaf", path |-> LeafPath(row.card.path, row.entry)]
  /\ toggleHist' = NoToggle
  /\ UNCHANGED <<component, analysis, expanded>>
  /\ UNCHANGED <<validationVars, fmtVars, routerVars, aiVars, pageVars>>

\* a click on the expand button of a mounted JsonTreeViewer: toggleExpand
JtToggle ==
  /\ component = "JsonTreeViewer"
  /\ \E path \in DOMAIN expanded :
       /\ Visible(path)
       /\ expanded' = JtToggled(path)
       /\ emitted' = NoEvent
       /\ lastClick' = [kind |-> "header", path |-> path]
       /\ toggleHist' = NextToggleHist(path)
  /\ UNCHANGED <<component, analysis>>
  /\ UNCHANGED <<validationVars, fmtVars, routerVars, aiVars, pageVars>>

\* a click on a mounted JsonTreeViewer node: handleNodeClick
JtNodeClick ==
  /\ component = "JsonTreeViewer"
  /\ \E path \in NodePaths(analysis, <<>>) :
       /\ Visible(path)
       /\ emitted' = Relay(JtNodeEvent(IF path = <<>> THEN <<>> ELSE path[Len(path)],
                                       At(analysis, path), Len(path)),
                           Len(path))
       /\ lastClick' = [kind |-> "node", path |-> path]
  /\ toggleHist' = NoToggle
  /\ UNCHANGED <<component, analysis, expanded>>
  /\ UNCHANGED <<validationVars, fmtVars, routerVars, aiVars, pageVars>>

InitTree ==
  /\ component \in {"NestedCard", "JsonTreeViewer"}
  /\ analysis \in Payloads
  /\ expanded = [path \in InstancePaths(component, analysis) |-> TRUE]
  /\ emitted = NoEvent
  /\ lastClick = NoClick
  /\ toggleHist = NoToggle
  /\ ValidationIdle /\ FmtIdle /\ RouterIdle /\ AiIdle /\ PageIdle

NextTree == NcHeaderClick \/ NcLeafClick \/ JtToggle \/ JtNodeClick

SpecTree == InitTree /\ [][NextTree]_vars

\* ---------------------------------------------------------- claims C12..C16
\* the payload {a: {b: 1}}
PayloadAB1 == JsonObj(<<[key |-> KeyA,
                         value |-> JsonObj(<<[key |-> KeyB, value |-> JsNum(Fin(1, 0))]>>)]>>)

\* C12: the leaf-click event that reaches the owner of ContractAnalysisDisplay
\* after a click on a leaf carries the leaf's key in the source object (the
\* last segment of its path), the leaf's value and the key path from the
\* root; for {a: {b: 1}} that is {key: "b", value: 1, path: ["a", "b"]}.
C12_LeafClickCarriesSourceKey ==
  (component = "NestedCard" /\ lastClick.kind \in {"leaf", "title"}) =>
    /\ emitted.type = "leaf-click"
    /\ emitted.path = lastClick.path
    /\ emitted.value = At(analysis, emitted.path)
    /\ emitted.key = emitted.path[Len(emitted.path)]
    /\ analysis = PayloadAB1 =>
         emitted = [type |-> "leaf-click", key |-> KeyB,
                    value |-> JsNum(Fin(1, 0)), path |-> <<KeyA, KeyB>>]

\* C13: every card's path is its parent's path with the original key of its
\* entry appended, a section's path being [sectionKey]; so the path of every
\* card, and the path reported in every leaf-click event, leads through the
\* source payload to exactly the card's data, respectively the clicked value.
C13_PathsUseOriginalKeys ==
  component = "NestedCard" =>
    /\ \A card \in AllCards(analysis) :
         /\ card.path # <<>>
         /\ HasPath(analysis, card.path)
         /\ At(analysis, card.path) = card.data
         /\ Len(card.path) = 1 =>
              \E i \in 1..Len(ObjectEntries(analysis)) :
                /\ card.path = <<ObjectEntries(analysis)[i].key>>
                /\ card.title = formatTitle(ObjectEntries(analysis)[i].key)
         /\ Len(card.path) > 1 =>
              \E parent \in AllCards(analysis) :
                \E i \in 1..Len(ObjectEntries(parent.data)) :
                  /\ card.path = parent.path \o <<ObjectEntries(parent.data)[i].key>>
                  /\ card.data = ObjectEntries(parent.data)[i].value
    /\ emitted.type = "leaf-click" =>
         /\ HasPath(analysis, emitted.path)
         /\ At(analysis, emitted.path) = emitted.value

\* a leaf below a nested card was clicked whose display key differs from its
\* original key
C13_Witness ==
  /\ component = "NestedCard"
  /\ emitted.type = "leaf-click"
  /\ Len(emitted.path) = 2
  /\ emitted.key # emitted.path[2]
  /\ At(analysis, emitted.path) = emitted.value

\* the (path, leaf value) pairs of a standard recursive walk: a node is a
\* leaf iff it is null or not an object/array; keys and indices are segments
RECURSIVE WalkLeaves(_, _)
WalkLeaves(value, path) ==
  IF value.t \notin {"object", "array"} THEN {[path |-> path, value |-> value]}
  ELSE UNION {WalkLeaves(ObjectEntries(value)[i].value,
                         path \o <<ObjectEntries(value)[i].key>>) :
                i \in 1..Len(ObjectEntries(value))}

FullyExpanded == \A path \in DOMAIN expanded : expanded[path]

\* every leaf-click carries a pair of the walk, and the events that the fully
\* expanded tree can emit carry exactly the pairs of the walk
EventsAreTheWalk ==
  /\ emitted.type = "leaf-click" =>
       /\ emitted \in OfferedLeafClicks
       /\ [path |-> emitted.path, value |-> emitted.value] \in WalkLeaves(analysis, <<>>)
  /\ FullyExpanded =>
       {[path |-> e.path, value |-> e.value] : e \in OfferedLeafClicks}
         = WalkLeaves(analysis, <<>>)

\* C14 as stated: for any JSON value given to ContractAnalysisDisplay the
\* (path, value) pairs of the leaf-click events of the fully expanded tree
\* are exactly the (path, leaf value) pairs of the recursive walk.
C14_EventsAreTheWalkOfAnyValue ==
  component = "NestedCard" => EventsAreTheWalk

\* C14 amended: the same for any JSON object or array.
C14_EventsAreTheWalkOfContainers ==
  (component = "NestedCard" /\ analysis.t \in {"object", "array"}) => EventsAreTheWalk

\* an element of an array inside an object payload was clicked
C14_Witness ==
  /\ component = "NestedCard"
  /\ analysis.t = "object"
  /\ emitted.type = "leaf-click"
  /\ Len(emitted.path) = 2
  /\ At(analysis, <<emitted.path[1]>>).t = "array"
  /\ [path |-> emitted.path, value |-> emitted.value] \in WalkLeaves(analysis, <<>>)

\* a step changes the expansion state of the container at path only if it is
\* a click on the header of that container
OnlyOwnHeaderToggles ==
  \A path \in DOMAIN expanded :
    expanded'[path] # expanded[path] =>
      (lastClick'.kind = "header" /\ lastClick'.path = path)

\* C15: every container starts expanded; the expansion state of a container
\* changes only by a click on its own header (no sibling, ancestor or other
\* node changes with it, and a leaf click changes none); a click on a
\* container header emits no leaf-click event.
C15_OnlyOwnHeaderToggles ==
  /\ [](lastClick = NoClick => FullyExpanded)
  /\ [](lastClick.kind = "header" => emitted.type # "leaf-click")
  /\ [][OnlyOwnHeaderToggles]_vars

\* C16: after a container was collapsed and then expanded again by two
\* consecutive clicks on its header, every container of the tree, the
\* toggled one and its descendants included, has the expansion state it had
\* before the first of the two clicks.
C16_DoubleToggleRestores ==
  (toggleHist.count = 2 /\ toggleHist.before[toggleHist.path]) =>
    expanded = toggleHist.before

\* ---------------------------------------------------------- the leaf formatters
NotSpecifiedStr == <<"N", "o", "t", " ", "s", "p", "e", "c", "i", "f", "i", "e", "d">>
YesStr == <<"Y", "e", "s">>
NoStr == <<"N", "o">>

TwoDigits(n) == <<DigitChar(n \div 10), DigitChar(n % 10)>>
ThreeDigits(n) == <<DigitChar(n \div 100)>> \o TwoDigits(n % 100)

\* the whole number nearest to m / 10^d * 10^places (m >= 0), halves going up
RoundScaled(m, d, places) ==
  IF d <= places THEN m * Pow10(places - d)
  ELSE (m + 5 * Pow10(d - places - 1)) \div Pow10(d - places)

\* s without its trailing "0" characters
RECURSIVE TrimZeros(_)
TrimZeros(s) ==
  IF s # <<>> /\ s[Len(s)] = "0" THEN TrimZeros(SubSeq(s, 1, Len(s) - 1)) ELSE s

\* the digits of n in groups of three separated by ","
RECURSIVE GroupThousands(_)
GroupThousands(n) ==
  IF n < 1000 THEN NatToString(n)
  ELSE GroupThousands(n \div 1000) \o <<",">> \o ThreeDigits(n % 1000)

Abs(m) == IF m < 0 THEN -m ELSE m

\* the one character U+221E
InfinitySign == "oo"

\* (value * 100).toFixed(2) for a finite value >= 0
TimesHundredToFixed2(x) ==
  LET h == RoundScaled(x.m, x.d, 4)
  IN NatToString(h \div 100) \o <<".">> \o TwoDigits(h % 100)

\* Number.prototype.toLocaleString() in the en-US locale: grouped whole part,
\* at most three fraction digits, no trailing zeros
toLocaleString(x) ==
  CASE x.k = "nan" -> <<"N", "a", "N">>
    [] x.k = "inf" -> <<InfinitySign>>
    [] x.k = "ninf" -> <<"-", InfinitySign>>
    [] x.k = "fin" ->
         LET t == RoundScaled(Abs(x.m), x.d, 3)
             frac == TrimZeros(ThreeDigits(t % 1000))
         IN (IF x.m < 0 THEN <<"-">> ELSE <<>>)
            \o GroupThousands(t \div 1000)
            \o (IF frac = <<>> THEN <<>> ELSE <<".">> \o frac)

\* the d digits of n, with leading zeros
RECURSIVE PadDigits(_, _)
PadDigits(n, d) ==
  IF d = 0 THEN <<>> ELSE PadDigits(n \div 10, d - 1) \o <<DigitChar(n % 10)>>

\* Number.prototype.toString() for the numbers of the model, decimals included
NumberToDecimalString(x) ==
  IF x.k # "fin" \/ x.d = 0 THEN NumberToString(x)
  ELSE LET a == Abs(x.m)
           frac == TrimZeros(PadDigits(a % Pow10(x.d), x.d))
       IN (IF x.m < 0 THEN <<"-">> ELSE <<>>)
          \o NatToString(a \div Pow10(x.d))
          \o (IF frac = <<>> THEN <<>> ELSE <<".">> \o frac)

Returns(text) == [threw |-> FALSE, text |-> text]
Throws == [threw |-> TRUE, text |-> <<>>]

\* NestedCard.formatValue: value.toString() on undefined is a TypeError
formatValue(value) ==
  CASE value.t = "null" -> Returns(NotSpecifiedStr)
    [] value.t = "boolean" -> Returns(IF value.v THEN YesStr ELSE NoStr)
    [] value.t = "number" ->
         IF NumGe(value.v, 0) /\ NumLe(value.v, 1)
           THEN Returns(TimesHundredToFixed2(value.v) \o <<"%">>)
           ELSE Returns(toLocaleString(value.v))
    [] value.t = "undefined" -> Throws
    [] OTHER -> Returns(JsToString(value))

\* JsonTreeViewer.formattedValue
formattedValue(data) ==
  CASE data.t = "null" -> Returns(<<"n", "u", "l", "l">>)
    [] data.t = "undefined" -> Returns(<<"u", "n", "d", "e", "f", "i", "n", "e", "d">>)
    [] data.t = "string" -> Returns(<<"\"">> \o data.v \o <<"\"">>)
    [] data.t = "number" -> Returns(NumberToDecimalString(data.v))
    [] data.t = "boolean" -> Returns(JsToString(data))
    [] OTHER -> Returns(<<>>)

FmtMantissas == {-1500, -1, 0, 1, 5, 10, 50, 100, 1001, 1234, 12345, 1234567}
FmtDecimals == 0..4
FmtStrings == {<<>>, <<"x">>, <<"a", " ", "b">>, <<"0", ".", "5">>, YesStr}

\* the scalar leaves handed to the formatters
FormatInputs ==
  {JsNull, JsUndefined, JsBool(TRUE), JsBool(FALSE)}
  \cup {JsNum(Fin(m, d)) : m \in FmtMantissas, d \in FmtDecimals}
  \cup {JsNum(NaN), JsNum(PosInf), JsNum(NegInf)}
  \cup {JsStr(str) : str \in FmtStrings}

\* {{ formatValue(entry.value) }} of a NestedCard leaf
FormatValue ==
  /\ \E value \in FormatInputs :
       /\ fmtValue' = value
       /\ fmtResult' = [by |-> "formatValue", result |-> formatValue(value)]
  /\ UNCHANGED <<validationVars, treeVars, routerVars, aiVars, pageVars>>

\* {{ formattedValue }} of a JsonTreeViewer leaf
FormattedValue ==
  /\ \E data \in FormatInputs :
       /\ fmtValue' = data
       /\ fmtResult' = [by |-> "formattedValue", result |-> formattedValue(data)]
  /\ UNCHANGED <<validationVars, treeVars, routerVars, aiVars, pageVars>>

InitFormat == ValidationIdle /\ TreeIdle /\ FmtIdle /\ RouterIdle /\ AiIdle /\ PageIdle

NextFormat == FormatValue \/ FormattedValue

SpecFormat == InitFormat /\ [][NextFormat]_vars

\* value is a number of the closed interval [0, 1]
InUnitInterval(value) ==
  /\ value.t = "number"
  /\ value.v.k = "fin"
  /\ 0 <= value.v.m
  /\ value.v.m <= Pow10(value.v.d)

\* text is a decimal with two fraction digits followed by "%"
IsPercentage(text) ==
  /\ Len(text) >= 5
  /\ text[Len(text)] = "%"
  /\ text[Len(text) - 3] = "."
  /\ \A i \in (1..(Len(text) - 1)) \ {Len(text) - 3} : text[i] \in Digits

\* C17: formatValue returns a display string for every scalar leaf: the
\* placeholder for null and for undefined, Yes/No for booleans, the percentage
\* form for numbers of [0, 1] (0 and 1 included), a form without "%" for every
\* other number, and the string itself for strings.
C17_FormatValueTotal ==
  fmtResult.by = "formatValue" =>
    /\ ~fmtResult.result.threw
    /\ fmtValue.t \in {"null", "undefined"} => fmtResult.result.text = NotSpecifiedStr
    /\ fmtValue.t = "boolean" =>
         fmtResult.result.text = (IF fmtValue.v THEN YesStr ELSE NoStr)
    /\ InUnitInterval(fmtValue) => IsPercentage(fmtResult.result.text)
    /\ (fmtValue.t = "number" /\ ~InUnitInterval(fmtValue)) =>
         \A i \in 1..Len(fmtResult.result.text) : fmtResult.result.text[i] # "%"
    /\ fmtValue.t = "string" => fmtResult.result.text = fmtValue.v

\* ---------------------------------------------------------- the router
Routes ==
  {"/", "/dashboard", "/login", "/register", "/borrower-registration",
   "/lender-registration", "/loan-application", "/loan-review",
   "/accepted-loans", "/support", "/business-profile", "/lending-preferences",
   "/ai-center"}

PublicRoutes ==
  {"/", "/login", "/register", "/borrower-registration", "/lender-registration"}

\* the roles a login response carries
ServerRoles == {"LENDER", "Lender", "lender", "BORROWER", "borrower", "ADMIN"}

\* the strings another script or the user can leave under userRole
StoredStrings == {"lender", "Lender", "lender ", "borrower", "admin", ""}

\* String.prototype.toLowerCase on the roles of the model
ToLowerCase(role) ==
  CASE role \in {"LENDER", "Lender", "lender"} -> "lender"
    [] role \in {"BORROWER", "borrower"} -> "borrower"
    [] role = "ADMIN" -> "admin"

\* localStorage.getItem: the stored string, or null when there is none
Stored(str) == [has |-> TRUE, value |-> str]

\* a guard that lets every stored role in
BeforeEnterAnyRole(userRole) ==
  IF userRole.has THEN "/accepted-loans" ELSE "/dashboard"

\* beforeEnter of /accepted-loans: next() or next('/dashboard')
BeforeEnter(userRole) ==
  IF userRole = Stored("lender") THEN "/accepted-loans" ELSE "/dashboard"

\* a navigation to a route; only /accepted-loans has a guard
Navigate ==
  /\ \E to \in Routes :
       /\ route' = IF to = "/accepted-loans" THEN BeforeEnter(storedRole) ELSE to
       /\ lastNav' = [op |-> "navigate", to |-> to, role |-> storedRole]
  /\ UNCHANGED storedRole
  /\ UNCHANGED <<validationVars, treeVars, fmtVars, aiVars, pageVars>>

\* Login.vue handleSubmit with a response that carries a role
Login ==
  /\ route = "/login"
  /\ \E role \in ServerRoles :
       /\ storedRole' = Stored(ToLowerCase(role))
       /\ route' = "/dashboard"
       /\ lastNav' = [op |-> "login", to |-> "/dashboard", role |-> storedRole]
  /\ UNCHANGED <<validationVars, treeVars, fmtVars, aiVars, pageVars>>

\* handleLogout of the navigation bar after a successful logout()
Logout ==
  /\ route \notin PublicRoutes
  /\ storedRole' = NoRole
  /\ route' = "/"
  /\ lastNav' = [op |-> "logout", to |-> "/", role |-> storedRole]
  /\ UNCHANGED <<validationVars, treeVars, fmtVars, aiVars, pageVars>>

\* the entry userRole of localStorage is written or removed from outside the
\* router (another tab, the developer tools)
StorageChange ==
  /\ storedRole' \in {NoRole} \cup {Stored(str) : str \in StoredStrings}
  /\ UNCHANGED <<route, lastNav>>
  /\ UNCHANGED <<validationVars, treeVars, fmtVars, aiVars, pageVars>>

InitRouter == ValidationIdle /\ TreeIdle /\ FmtIdle /\ RouterIdle /\ AiIdle /\ PageIdle

NextRouter == Navigate \/ Login \/ Logout \/ StorageChange

SpecRouter == InitRouter /\ [][NextRouter]_vars

\* C18: a navigation to /accepted-loans enters the route iff the stored
\* userRole is exactly 'lender' at that moment; with any other value, or none,
\* it ends on /dashboard; the route is entered in no other way.
C18_AcceptedLoansOnlyForLender ==
  /\ (lastNav.op = "navigate" /\ lastNav.to = "/accepted-loans") =>
       /\ lastNav.role = Stored("lender") => route = "/accepted-loans"
       /\ lastNav.role # Stored("lender") => route = "/dashboard"
  /\ route = "/accepted-loans" =>
       /\ lastNav.op = "navigate"
       /\ lastNav.to = "/accepted-loans"
       /\ lastNav.role = Stored("lender")

\* a navigation to /accepted-loans with a stored role other than 'lender'
\* ended on /dashboard
C18_Witness ==
  /\ lastNav.op = "navigate"
  /\ lastNav.to = "/accepted-loans"
  /\ lastNav.role.has
  /\ lastNav.role.value # "lender"
  /\ route = "/dashboard"

\* ---------------------------------------------------------- the explanation modal
\* the keys of the leaf-click events that reach AICenter
Terms == {"A", "B C"}

\* what the explain request ends with: a body, a body with an error field,
\* a rejected request
Outcomes == {"ok", "errorField", "failed"}

\* the calls of handleLeafClick that got past the loading check, each with
\* the place it is at: "timer" (awaiting the 500 ms timer), "hung" (its timer
\* was cleared, its promise never resolves), "request" (awaiting api.post),
\* "done" (past finally)
PendingRequests(cs) == {i \in 1..Len(cs) : cs[i].pc = "request"}

\* clearTimeout(explanationTimeout): a timer that has not fired never fires
ClearTimeout(cs, timeout) ==
  IF timeout # 0 /\ cs[timeout].pc = "timer"
    THEN [cs EXCEPT ![timeout].pc = "hung"]
    ELSE cs

\* handleLeafClick without the loading check
ReturnsEarlyNever(loading) == FALSE

\* if (explanationLoading.value) return;
ReturnsEarly(loading) == loading

\* handleLeafClick up to its first await
LeafClick ==
  /\ explanationLoading \/ Len(calls) < MaxCalls
  /\ \E key \in Terms :
       /\ lastLeafClick' = [kind |-> "click", loading |-> explanationLoading,
                            term |-> selectedTerm, calls |-> calls]
       /\ IF ReturnsEarly(explanationLoading)
            THEN /\ calls' = ClearTimeout(calls, explanationTimeout)
                 /\ UNCHANGED <<explanationLoading, selectedTerm, showExplanationModal,
                                explanation, explanationError, explanationTimeout>>
            ELSE /\ selectedTerm' = key
                 /\ showExplanationModal' = TRUE
                 /\ explanationLoading' = TRUE
                 /\ explanation' = ""
                 /\ explanationError' = ""
                 /\ calls' = Append(ClearTimeout(calls, explanationTimeout),
                                    [key |-> key, pc |-> "timer"])
                 /\ explanationTimeout' = Len(calls) + 1
  /\ UNCHANGED <<validationVars, treeVars, fmtVars, routerVars, pageVars>>

\* the 500 ms timer fires: the promise resolves and api.post is called
TimerFire ==
  /\ \E i \in 1..Len(calls) :
       /\ calls[i].pc = "timer"
       /\ calls' = [calls EXCEPT ![i].pc = "request"]
  /\ lastLeafClick' = NoLeafClick
  /\ UNCHANGED <<explanationLoading, selectedTerm, showExplanationModal,
                 explanation, explanationError, explanationTimeout>>
  /\ UNCHANGED <<validationVars, treeVars, fmtVars, routerVars, pageVars>>

\* the request ends: handleLeafClick from the second await to after finally
Respond ==
  /\ \E i \in 1..Len(calls) :
       /\ calls[i].pc = "request"
       /\ calls' = [calls EXCEPT ![i].pc = "done"]
       /\ \E outcome \in Outcomes :
            IF outcome = "ok"
              THEN /\ explanation' = "explanation of " \o calls[i].key
                   /\ UNCHANGED explanationError
              ELSE /\ explanationError' = outcome
                   /\ UNCHANGED explanation
  /\ explanationLoading' = FALSE
  /\ lastLeafClick' = NoLeafClick
  /\ UNCHANGED <<selectedTerm, showExplanationModal, explanationTimeout>>
  /\ UNCHANGED <<validationVars, treeVars, fmtVars, routerVars, pageVars>>

\* closeExplanationModal
CloseModal ==
  /\ ~explanationLoading
  /\ showExplanationModal
  /\ showExplanationModal' = FALSE
  /\ explanation' = ""
  /\ selectedTerm' = ""
  /\ explanationError' = ""
  /\ lastLeafClick' = NoLeafClick
  /\ UNCHANGED <<explanationLoading, explanationTimeout, calls>>
  /\ UNCHANGED <<validationVars, treeVars, fmtVars, routerVars, pageVars>>

InitExplain == ValidationIdle /\ TreeIdle /\ FmtIdle /\ RouterIdle /\ AiIdle /\ PageIdle

NextExplain == LeafClick \/ TimerFire \/ Respond \/ CloseModal

SpecExplain == InitExplain /\ [][NextExplain]_vars

\* C19: at most one /ai/explain request is pending at any time, and a leaf
\* click that arrives while explanationLoading is true starts no call of the
\* request and leaves selectedTerm as it was.
C19_OneRequestAtATime ==
  /\ Cardinality(PendingRequests(calls)) <= 1
  /\ (lastLeafClick.kind = "click" /\ lastLeafClick.loading) =>
       /\ selectedTerm = lastLeafClick.term
       /\ Len(calls) = Len(lastLeafClick.calls)
       /\ PendingRequests(calls) = PendingRequests(lastLeafClick.calls)

\* a leaf click arrived while a request was pending
C19_Witness ==
  /\ lastLeafClick.kind = "click"
  /\ lastLeafClick.loading
  /\ Cardinality(PendingRequests(calls)) = 1
  /\ selectedTerm = lastLeafClick.term

\* C20: explanationLoading never stays true forever: while it is true, the
\* call that set it is still on its way to the finally block that clears it
\* (its debounce timer has yet to fire, or its request has yet to end), also
\* when a second click arrived during the debounce delay of the first.
C20_LoadingIsCleared ==
  explanationLoading =>
    \E i \in 1..Len(calls) : calls[i].pc \in {"timer", "request"}

\* ---------------------------------------------------------- useLoadingState and its views
\* setTimeout(..., 3000) of setSuccess, in seconds
ClearSeconds == 3

startLoading(s) == [isLoading |-> TRUE, error |-> "", success |-> ""]
stopLoading(s) == [s EXCEPT !.isLoading = FALSE]
setError(s, message) == [isLoading |-> FALSE, error |-> message, success |-> ""]

\* setSuccess that leaves the error message in place
setSuccessKeepsError(s, message) ==
  [isLoading |-> FALSE, error |-> s.error, success |-> message]

\* setSuccess without its timer, which SetTimer adds
setSuccess(s, message) == [isLoading |-> FALSE, error |-> "", success |-> message]
clearMessages(s) == [s EXCEPT !.error = "", !.success = ""]

\* setTimeout(() => { success.value = '' }, 3000)
SetTimer(ts) == Append(ts, ClearSeconds)

\* the callback of an auto-clear timer
ClearSuccess(s) == [s EXCEPT !.success = ""]

\* the failures axios hands to the response interceptor: an error status with
\* a body (its message, or "" when it has none), no response, a failed setup
ServerMessages == {"", "Invalid credentials"}
AxiosErrors ==
  {[kind |-> "response", message |-> m] : m \in ServerMessages}
  \cup {[kind |-> "request"], [kind |-> "setup"]}

\* what a catch block receives: hasResponse and responseMessage stand for
\* err.response and err.response.data.message, message for err.message
\* api.interceptors.response: the rejection is error.response.data itself, or
\* a fresh object that has only a message
Rejection(error) ==
  CASE error.kind = "response" ->
         [hasResponse |-> FALSE, responseMessage |-> "", message |-> error.message]
    [] error.kind = "request" ->
         [hasResponse |-> FALSE, responseMessage |-> "",
          message |-> "Unable to connect to server. Please check if the server is running and try again."]
    [] error.kind = "setup" ->
         [hasResponse |-> FALSE, responseMessage |-> "",
          message |-> "An error occurred. Please try again."]

\* throw new Error('User ID not found')
UserIdNotFound ==
  [hasResponse |-> FALSE, responseMessage |-> "", message |-> "User ID not found"]

\* err.response?.data?.message || fallback
ErrorText(err, fallback) ==
  IF err.hasResponse /\ err.responseMessage # "" THEN err.responseMessage ELSE fallback

Pages ==
  {"Login", "Dashboard", "LoanReview", "Profile", "LoanApplication", "DocumentManager"}

\* the views with a handler that sends a change and ends with setSuccess
MutatingPages == {"Login", "LoanReview", "LoanApplication", "DocumentManager"}

\* the views with a handler that loads data when the view is mounted
LoadingPages == Pages \ {"Login"}

\* the mutating handlers that reload the list after setSuccess
ReloadsAfterSuccess(p) == p # "Login"

\* the views whose load handler has a finally block that clears isLoading
LoadHasFinally(p) == p \in {"LoanApplication", "DocumentManager"}

\* the views whose load handler reads userId from localStorage
LoadReadsUserId(p) == p # "DocumentManager"

LoadFallback(p) ==
  CASE p = "Dashboard" -> "Failed to load dashboard data"
    [] p = "LoanReview" -> "Failed to load loan applications"
    [] p = "Profile" -> "Failed to load profile"
    [] p = "LoanApplication" -> "Failed to load loan history"
    [] p = "DocumentManager" -> "Failed to load documents"

MutateFallback(p) ==
  CASE p = "Login" -> "Login failed"
    [] p = "LoanReview" -> "Failed to approve application"
    [] p = "LoanApplication" -> "Failed to confirm loan"
    [] p = "DocumentManager" -> "Failed to upload document"

SuccessText(p) ==
  CASE p = "Login" -> "Login successful!"
    [] p = "LoanReview" -> "Application approved successfully"
    [] p = "LoanApplication" -> "Loan confirmed successfully"
    [] p = "DocumentManager" -> "Document uploaded successfully!"

\* the load handler after its request was answered
LoadOk(s, p) == IF LoadHasFinally(p) THEN stopLoading(s) ELSE s

\* the load handler after its request failed, or after its own throw
LoadFailed(s, p, err) ==
  IF LoadHasFinally(p) THEN stopLoading(setError(s, ErrorText(err, LoadFallback(p))))
  ELSE setError(s, ErrorText(err, LoadFallback(p)))

Done(op, message, failure) ==
  [op |-> op, before |-> loadingState, message |-> message, age |-> successAge,
   failure |-> failure]

OtherThanLoading ==
  <<validationVars, treeVars, fmtVars, routerVars, aiVars, analyzeVars, logoutVars, loanVars>>

ErrorMessages == {"Please fill in the form"}
SuccessMessages == {"Saved", "Profile updated successfully"}

StartLoading ==
  /\ loadingState' = startLoading(loadingState)
  /\ lastLoad' = Done("startLoading", "", NoFailure)
  /\ UNCHANGED <<successAge, timers, page, handler>>
  /\ UNCHANGED OtherThanLoading

StopLoading ==
  /\ loadingState' = stopLoading(loadingState)
  /\ lastLoad' = Done("stopLoading", "", NoFailure)
  /\ UNCHANGED <<successAge, timers, page, handler>>
  /\ UNCHANGED OtherThanLoading

SetError ==
  /\ \E message \in ErrorMessages :
       /\ loadingState' = setError(loadingState, message)
       /\ lastLoad' = Done("setError", message, NoFailure)
  /\ UNCHANGED <<successAge, timers, page, handler>>
  /\ UNCHANGED OtherThanLoading

SetSuccess ==
  /\ Len(timers) < MaxTimers
  /\ \E message \in SuccessMessages :
       /\ loadingState' = setSuccess(loadingState, message)
       /\ lastLoad' = Done("setSuccess", message, NoFailure)
  /\ timers' = SetTimer(timers)
  /\ successAge' = 0
  /\ UNCHANGED <<page, handler>>
  /\ UNCHANGED OtherThanLoading

ClearMessages ==
  /\ loadingState' = clearMessages(loadingState)
  /\ lastLoad' = Done("clearMessages", "", NoFailure)
  /\ UNCHANGED <<successAge, timers, page, handler>>
  /\ UNCHANGED OtherThanLoading

\* one second passes; a timer that is due fires first
Tick ==
  /\ \A i \in 1..Len(timers) : timers[i] > 0
  /\ successAge < ClearSeconds \/ timers # <<>>
  /\ timers' = [i \in 1..Len(timers) |-> timers[i] - 1]
  /\ successAge' = IF successAge < ClearSeconds THEN successAge + 1 ELSE successAge
  /\ lastLoad' = Done("tick", "", NoFailure)
  /\ UNCHANGED <<loadingState, page, handler>>
  /\ UNCHANGED OtherThanLoading

\* the oldest auto-clear timer fires
TimerFires ==
  /\ timers # <<>>
  /\ Head(timers) = 0
  /\ loadingState' = ClearSuccess(loadingState)
  /\ timers' = Tail(timers)
  /\ lastLoad' = Done("timer", loadingState.success, NoFailure)
  /\ UNCHANGED <<successAge, page, handler>>
  /\ UNCHANGED OtherThanLoading

\* loadDashboardStats, loadApplications, loadProfile, loadLoanHistory,
\* loadDocuments up to the await (or through the catch, without a userId)
LoadStart ==
  /\ handler.pc = "idle"
  /\ page \in LoadingPages
  /\ \E hasUserId \in BOOLEAN :
       IF LoadReadsUserId(page) /\ ~hasUserId
         THEN /\ loadingState' = LoadFailed(startLoading(loadingState), page, UserIdNotFound)
              /\ lastLoad' = Done("loadFailed", "", [kind |-> "thrown"])
              /\ UNCHANGED handler
         ELSE /\ loadingState' = startLoading(loadingState)
              /\ lastLoad' = Done("loadStarted", "", NoFailure)
              /\ handler' = [pc |-> "load", finally |-> FALSE]
  /\ UNCHANGED <<successAge, timers, page>>
  /\ UNCHANGED OtherThanLoading

\* the request of the load handler settles
LoadSettle ==
  /\ handler.pc = "load"
  /\ \/ /\ loadingState' = LoadOk(loadingState, page)
        /\ lastLoad' = Done("loaded", "", NoFailure)
     \/ \E error \in AxiosErrors :
          /\ loadingState' = LoadFailed(loadingState, page, Rejection(error))
          /\ lastLoad' = Done("loadFailed", "", error)
  /\ handler' = IdleHandler
  /\ UNCHANGED <<successAge, timers, page>>
  /\ UNCHANGED OtherThanLoading

\* handleLogin, handleConfirm (with a finally block), handleSubmit,
\* handleDelete, uploadFiles, handleAction up to the await
MutateStart ==
  /\ handler.pc = "idle"
  /\ page \in MutatingPages
  /\ loadingState' = startLoading(loadingState)
  /\ \E finally \in (IF page = "LoanApplication" THEN BOOLEAN ELSE {FALSE}) :
       handler' = [pc |-> "mutate", finally |-> finally]
  /\ lastLoad' = Done("mutateStarted", "", NoFailure)
  /\ UNCHANGED <<successAge, timers, page>>
  /\ UNCHANGED OtherThanLoading

\* the request of the mutating handler settles: setSuccess and the start of
\* the reload up to its await, or the catch (and finally) block
MutateSettle ==
  /\ handler.pc = "mutate"
  /\ \/ /\ Len(timers) < MaxTimers
        /\ loadingState' =
             (IF ReloadsAfterSuccess(page)
                THEN startLoading(setSuccess(loadingState, SuccessText(page)))
                ELSE setSuccess(loadingState, SuccessText(page)))
        /\ timers' = SetTimer(timers)
        /\ successAge' = 0
        /\ handler' = (IF ReloadsAfterSuccess(page)
                         THEN [handler EXCEPT !.pc = "reload"]
                         ELSE IdleHandler)
        /\ lastLoad' = Done("mutated", SuccessText(page), NoFailure)
     \/ /\ \E error \in AxiosErrors :
             /\ loadingState' =
                  (IF handler.finally
                     THEN stopLoading(setError(loadingState,
                            ErrorText(Rejection(error), MutateFallback(page))))
                     ELSE setError(loadingState,
                            ErrorText(Rejection(error), MutateFallback(page))))
             /\ lastLoad' = Done("mutateFailed", "", error)
        /\ handler' = IdleHandler
        /\ UNCHANGED <<successAge, timers>>
  /\ UNCHANGED page
  /\ UNCHANGED OtherThanLoading

\* the reload inside the mutating handler settles, and the handler ends
ReloadSettle ==
  /\ handler.pc = "reload"
  /\ \/ /\ loadingState' = (IF handler.finally
                              THEN stopLoading(LoadOk(loadingState, page))
                              ELSE LoadOk(loadingState, page))
        /\ lastLoad' = Done("reloaded", SuccessText(page), NoFailure)
     \/ \E error \in AxiosErrors :
          /\ loadingState' = (IF handler.finally
                                THEN stopLoading(LoadFailed(loadingState, page, Rejection(error)))
                                ELSE LoadFailed(loadingState, page, Rejection(error)))
          /\ lastLoad' = Done("reloadFailed", "", error)
  /\ handler' = IdleHandler
  /\ UNCHANGED <<successAge, timers, page>>
  /\ UNCHANGED OtherThanLoading

InitLoading ==
  /\ page \in Pages
  /\ loadingState = IdleLoadingState
  /\ successAge = 0
  /\ timers = <<>>
  /\ handler = IdleHandler
  /\ lastLoad = NoLoad
  /\ ValidationIdle /\ TreeIdle /\ FmtIdle /\ RouterIdle /\ AiIdle
  /\ AnalyzeIdle /\ LogoutIdle /\ LoanIdle

NextLoading ==
  \/ StartLoading \/ StopLoading \/ SetError \/ SetSuccess \/ ClearMessages
  \/ Tick \/ TimerFires
  \/ LoadStart \/ LoadSettle \/ MutateStart \/ MutateSettle \/ ReloadSettle

SpecLoading == InitLoading /\ [][NextLoading]_vars

\* C21: an auto-clear timer that clears a success message fires 3 seconds
\* after the setSuccess call that set that message, never earlier, also when
\* setSuccess calls overlap.
C21_SuccessShownThreeSeconds ==
  (lastLoad.op = "timer" /\ lastLoad.message # "") => lastLoad.age >= ClearSeconds

\* C22: when the request of a page load handler (Dashboard, LoanReview,
\* Profile) has settled, on success as on failure, isLoading is false.
C22_LoadingEndsWhenSettled ==
  (page \in {"Dashboard", "LoanReview", "Profile"}
   /\ lastLoad.op \in {"loaded", "loadFailed"}) => ~loadingState.isLoading

\* C23: when the reload started after a successful mutating action has
\* completed less than 3 seconds after setSuccess, the success message is
\* still held.
C23_SuccessSurvivesReload ==
  (lastLoad.op = "reloaded" /\ successAge < ClearSeconds) =>
    loadingState.success = lastLoad.message

\* C24: error and success are never both non-empty, and right after setError
\* or setSuccess isLoading is false.
C24_MessagesExclusive ==
  /\ ~(loadingState.error # "" /\ loadingState.success # "")
  /\ lastLoad.op \in {"setError", "setSuccess"} => ~loadingState.isLoading

\* setSuccess replaced an error message while the instance was not loading
C24_Witness ==
  /\ lastLoad.op = "setSuccess"
  /\ lastLoad.before.error # ""
  /\ loadingState.success # ""
  /\ loadingState.error = ""

\* C26: when the server answers with an error status and a body that carries
\* a message M, the error text stored by the view is M; the fallback text is
\* stored only when the failure carries no server message.
C26_ServerMessageShown ==
  (lastLoad.op \in {"loadFailed", "mutateFailed", "reloadFailed"}
   /\ lastLoad.failure.kind = "response") =>
    IF lastLoad.failure.message # ""
      THEN loadingState.error = lastLoad.failure.message
      ELSE loadingState.error \in
             {LoadFallback(p) : p \in LoadingPages} \cup {MutateFallback(p) : p \in MutatingPages}

\* ---------------------------------------------------------- AICenter: analyzeContract
MaxAnalyses == 2

stages ==
  << [name |-> "Preprocessing text", duration |-> 1000],
     [name |-> "Analyzing structure", duration |-> 1500],
     [name |-> "Identifying key terms", duration |-> 2000],
     [name |-> "Evaluating risks", duration |-> 1500],
     [name |-> "Generating recommendations", duration |-> 1000] >>

RECURSIVE TotalTime(_)
\* the durations of the first k stages
TotalTime(k) == IF k = 0 THEN 0 ELSE TotalTime(k - 1) + stages[k].duration

totalDuration == TotalTime(Len(stages))

\* startProgress and endProgress of a stage, in whole percent
StartProgress(k) == (TotalTime(k - 1) * 100) \div totalDuration
EndProgress(k) == (TotalTime(k) * 100) \div totalDuration

\* the value a frame inside the stage gives progress, taken at its middle
StageProgress(k) == (StartProgress(k) + EndProgress(k)) \div 2

\* the texts of the textarea
ContractTexts == {<<>>, <<" ">>, <<"a">>}

\* the bodies /ai/contract answers with
\* the failures of the request: an error status with a message, no response
AnalyzeFailures == {[kind |-> "response", message |-> "Invalid credentials"], [kind |-> "request"]}

AnalysisBodies == {[kind |-> "data", error |-> e] : e \in {"", "Model unavailable"}}

\* err.message || err.response?.data?.message || 'Failed to analyze contract. Please try again.'
AnalyzeErrorText(err) ==
  IF err.message # "" THEN err.message
  ELSE IF err.hasResponse /\ err.responseMessage # "" THEN err.responseMessage
  ELSE "Failed to analyze contract. Please try again."

\* the finally block up to its first pending await: checkProgress resolves at
\* once when progress is at 100, else it polls with requestAnimationFrame
FinallyPc(p) == IF p >= 100 THEN "delay500" ELSE "poll"

\* the calls that still have a step to take: the function itself or its
\* simulateProgress
Running(as) == SelectSeq(as, LAMBDA a : ~(a.pc = "done" /\ a.sim.done))

AnalyzeStep(op) == [op |-> op, ok |-> FALSE]

OtherThanAnalyze ==
  <<validationVars, treeVars, fmtVars, routerVars, aiVars, loadingVars, logoutVars, loanVars>>

\* the textarea's v-model
SetContractText ==
  /\ \E text \in ContractTexts : contractText' = text
  /\ lastAnalyze' = AnalyzeStep("step")
  /\ UNCHANGED <<rawAnalysis, isAnalyzing, analyzeError, progress, currentStage, analyses>>
  /\ UNCHANGED OtherThanAnalyze

\* analyzeContract up to the await of api.post, with simulateProgress up to
\* its first requestAnimationFrame; the button is disabled while isAnalyzing
AnalyzeContract ==
  /\ ~isAnalyzing
  /\ IF Trim(contractText) = <<>>
       THEN /\ lastAnalyze' = AnalyzeStep("blank")
            /\ UNCHANGED <<rawAnalysis, isAnalyzing, analyzeError, progress, currentStage,
                           analyses>>
       ELSE /\ Len(analyses) < MaxAnalyses
            /\ isAnalyzing' = TRUE
            /\ analyzeError' = ""
            /\ rawAnalysis' = NullAnalysis
            /\ progress' = StartProgress(1)
            /\ currentStage' = stages[1].name
            /\ analyses' = Append(analyses,
                 [pc |-> "request", ok |-> FALSE, sim |-> [stage |-> 1, done |-> FALSE]])
            /\ lastAnalyze' = AnalyzeStep("step")
  /\ UNCHANGED contractText
  /\ UNCHANGED OtherThanAnalyze

\* simulateProgress resumed by its requestAnimationFrame callback: the while
\* loop of the stage goes on, or the stage is over (elapsed) and the next one
\* starts, or it breaks because isAnalyzing is false or the stages are over
SimStep(a, elapsed, f) ==
  LET stage == a.sim.stage
  IN IF a.sim.done THEN [f EXCEPT !.analyses = Append(@, a)]
     ELSE IF isAnalyzing /\ ~elapsed
       THEN [f EXCEPT !.analyses = Append(@, a), !.progress = StageProgress(stage)]
     ELSE IF isAnalyzing /\ stage < Len(stages)
       THEN [analyses |-> Append(f.analyses, [a EXCEPT !.sim.stage = stage + 1]),
             progress |-> StartProgress(stage + 1),
             currentStage |-> stages[stage + 1].name]
     ELSE [f EXCEPT !.analyses = Append(@, [a EXCEPT !.sim.done = TRUE]),
                    !.progress = 100]

RECURSIVE SimSteps(_, _, _, _)
\* the callbacks of one animation frame, in the order they were requested
SimSteps(as, elapsed, i, f) ==
  IF i > Len(as) THEN f
  ELSE SimSteps(as, elapsed, i + 1, SimStep(as[i], elapsed[i], f))

\* Date.now() is shared: a simulateProgress that started earlier is never at
\* an earlier stage than one that started later
StagesInOrder(as) ==
  \A i, j \in 1..Len(as) :
    (i < j /\ ~as[i].sim.done /\ ~as[j].sim.done) => as[i].sim.stage >= as[j].sim.stage

\* one animation frame: every pending simulateProgress takes its step
SimFrame ==
  /\ \E i \in 1..Len(analyses) : ~analyses[i].sim.done
  /\ \E elapsed \in [1..Len(analyses) -> BOOLEAN] :
       \E f \in {SimSteps(analyses, elapsed, 1,
                   [analyses |-> <<>>, progress |-> progress,
                    currentStage |-> currentStage])} :
         /\ StagesInOrder(f.analyses)
         /\ analyses' = Running(f.analyses)
         /\ progress' = f.progress
         /\ currentStage' = f.currentStage
  /\ lastAnalyze' = AnalyzeStep("step")
  /\ UNCHANGED <<contractText, rawAnalysis, isAnalyzing, analyzeError>>
  /\ UNCHANGED OtherThanAnalyze

\* the catch block and the finally block up to its first pending await
AnalyzeCatch(i, message) ==
  /\ analyzeError' = message
  /\ isAnalyzing' = FALSE
  /\ analyses' = [analyses EXCEPT ![i].pc = FinallyPc(progress)]
  /\ UNCHANGED rawAnalysis

\* api.post('/ai/contract') settles
AnalyzeRespond ==
  /\ \E i \in 1..Len(analyses) :
       /\ analyses[i].pc = "request"
       /\ \/ \E body \in AnalysisBodies :
               IF body.error # ""
                 THEN AnalyzeCatch(i, body.error)
                 ELSE /\ rawAnalysis' = body
                      /\ analyses' = [analyses EXCEPT ![i].pc = "delay100", ![i].ok = TRUE]
                      /\ UNCHANGED <<isAnalyzing, analyzeError>>
          \/ \E error \in AnalyzeFailures :
               AnalyzeCatch(i, AnalyzeErrorText(Rejection(error)))
       /\ lastAnalyze' = AnalyzeStep("step")
  /\ UNCHANGED <<contractText, progress, currentStage>>
  /\ UNCHANGED OtherThanAnalyze

\* the 100 ms timer of the success path fires
AnalyzeDelay100 ==
  /\ \E i \in 1..Len(analyses) :
       /\ analyses[i].pc = "delay100"
       /\ isAnalyzing' = FALSE
       /\ analyses' = [analyses EXCEPT ![i].pc = "awaitProgress"]
       /\ lastAnalyze' = AnalyzeStep("step")
  /\ UNCHANGED <<contractText, rawAnalysis, analyzeError, progress, currentStage>>
  /\ UNCHANGED OtherThanAnalyze

\* await progressPromise resumes, and the finally block starts
AnalyzeAwaitProgress ==
  /\ \E i \in 1..Len(analyses) :
       /\ analyses[i].pc = "awaitProgress"
       /\ analyses[i].sim.done
       /\ analyses' = [analyses EXCEPT ![i].pc = FinallyPc(progress)]
       /\ lastAnalyze' = AnalyzeStep("step")
  /\ UNCHANGED <<contractText, rawAnalysis, isAnalyzing, analyzeError, progress, currentStage>>
  /\ UNCHANGED OtherThanAnalyze

\* a requestAnimationFrame callback of checkProgress that finds progress at 100
AnalyzePoll ==
  /\ \E i \in 1..Len(analyses) :
       /\ analyses[i].pc = "poll"
       /\ FinallyPc(progress) = "delay500"
       /\ analyses' = [analyses EXCEPT ![i].pc = "delay500"]
       /\ lastAnalyze' = AnalyzeStep("step")
  /\ UNCHANGED <<contractText, rawAnalysis, isAnalyzing, analyzeError, progress, currentStage>>
  /\ UNCHANGED OtherThanAnalyze

\* the 500 ms timer of the finally block fires, and the call completes
AnalyzeDelay500 ==
  /\ \E i \in 1..Len(analyses) :
       /\ analyses[i].pc = "delay500"
       /\ progress' = 0
       /\ currentStage' = ""
       /\ analyses' = Running([analyses EXCEPT ![i].pc = "done"])
       /\ lastAnalyze' = [op |-> "completed", ok |-> analyses[i].ok]
  /\ UNCHANGED <<contractText, rawAnalysis, isAnalyzing, analyzeError>>
  /\ UNCHANGED OtherThanAnalyze

resetAnalysis ==
  /\ contractText' = <<>>
  /\ rawAnalysis' = NullAnalysis
  /\ analyzeError' = ""
  /\ lastAnalyze' = AnalyzeStep("step")
  /\ UNCHANGED <<isAnalyzing, progress, currentStage, analyses>>
  /\ UNCHANGED OtherThanAnalyze

InitAnalyze ==
  /\ ValidationIdle /\ TreeIdle /\ FmtIdle /\ RouterIdle /\ AiIdle /\ PageIdle

NextAnalyze ==
  \/ SetContractText \/ AnalyzeContract \/ SimFrame \/ AnalyzeRespond
  \/ AnalyzeDelay100 \/ AnalyzeAwaitProgress \/ AnalyzePoll \/ AnalyzeDelay500
  \/ resetAnalysis

SpecAnalyze == InitAnalyze /\ [][NextAnalyze]_vars

\* C25: when an analyzeContract call with non-blank text completes,
\* isAnalyzing is false, progress is reset to 0 (after the finally block saw
\* it at 100), currentStage is empty, and rawAnalysis is non-null only if
\* the call's request succeeded without an error field; a call with blank
\* text sends no request.
C25_AnalyzeCompletes ==
  /\ lastAnalyze.op = "completed" =>
       /\ ~isAnalyzing
       /\ progress = 0
       /\ currentStage = ""
       /\ rawAnalysis # NullAnalysis => lastAnalyze.ok
  /\ lastAnalyze.op = "blank" =>
       \A i \in 1..Len(analyses) : analyses[i].pc # "request"

\* ---------------------------------------------------------- App: handleLogout, api/auth: logout
\* the users the server knows
Users == {[role |-> "borrower", firstName |-> "Ann", id |-> "1"],
          [role |-> "lender", firstName |-> "Bo", id |-> "2"]}

AppPaths == {"/", "/dashboard", "/support"}

setItem(entries, key, value) ==
  [k \in DOMAIN entries \cup {key} |-> IF k = key THEN value ELSE entries[k]]

removeItem(entries, key) == [k \in DOMAIN entries \ {key} |-> entries[k]]

\* localStorage.clear()
clear(entries) == NoEntries

getItem(entries, key) == IF key \in DOMAIN entries THEN entries[key] ELSE ""

AppState ==
  [localStorage |-> localStorage, userRole |-> userRoleRef, userFirstName |-> userFirstName,
   navPath |-> navPath]

\* handleLogout that cleans up in a finally block, whatever logout() did
handleLogoutFinally(app, ok) ==
  [localStorage |-> clear(IF ok THEN removeItem(app.localStorage, "userRole")
                          ELSE app.localStorage),
   userRole |-> "",
   userFirstName |-> "",
   navPath |-> "/"]

\* logout() and handleLogout after the request settled: with ok, removeItem,
\* the refs, clear and router.push('/'); without, the rethrow is caught and
\* logged by handleLogout
handleLogout(app, ok) ==
  IF ok
    THEN [localStorage |-> clear(removeItem(app.localStorage, "userRole")),
          userRole |-> "",
          userFirstName |-> "",
          navPath |-> "/"]
    ELSE app

OtherThanLogout == <<validationVars, treeVars, fmtVars, routerVars, aiVars, loadingVars,
                     analyzeVars, loanVars>>

\* handleLogin stores the user and reloads the page at /dashboard; onMounted
\* of App reads the refs from localStorage
LoginReload ==
  /\ \E user \in Users :
       /\ localStorage' = setItem(setItem(setItem(localStorage, "userRole", user.role),
                                          "userId", user.id),
                                  "userFirstName", user.firstName)
       /\ userRoleRef' = user.role
       /\ userFirstName' = user.firstName
  /\ navPath' = "/dashboard"
  /\ logouts' = 0
  /\ lastLogout' = [op |-> "login", before |-> AppState]
  /\ UNCHANGED OtherThanLogout

\* a router link is followed
FollowLink ==
  /\ \E to \in AppPaths : navPath' = to
  /\ lastLogout' = [op |-> "link", before |-> AppState]
  /\ UNCHANGED <<localStorage, userRoleRef, userFirstName, logouts>>
  /\ UNCHANGED OtherThanLogout

\* an entry of localStorage is removed from outside the page
EntryRemoved ==
  /\ \E key \in DOMAIN localStorage : localStorage' = removeItem(localStorage, key)
  /\ lastLogout' = [op |-> "storage", before |-> AppState]
  /\ UNCHANGED <<userRoleRef, userFirstName, navPath, logouts>>
  /\ UNCHANGED OtherThanLogout

\* handleLogout up to the await inside logout(); the Logout button is in the
\* navigation bar, which the public routes do not show
HandleLogout ==
  /\ navPath # "/"
  /\ logouts < MaxCalls
  /\ logouts' = logouts + 1
  /\ lastLogout' = [op |-> "started", before |-> AppState]
  /\ UNCHANGED <<localStorage, userRoleRef, userFirstName, navPath>>
  /\ UNCHANGED OtherThanLogout

\* POST /auth/logout settles
LogoutSettle ==
  /\ logouts > 0
  /\ \E ok \in BOOLEAN :
       \E app \in {handleLogout(AppState, ok)} :
         /\ localStorage' = app.localStorage
         /\ userRoleRef' = app.userRole
         /\ userFirstName' = app.userFirstName
         /\ navPath' = app.navPath
         /\ lastLogout' = [op |-> IF ok THEN "succeeded" ELSE "failed", before |-> AppState]
  /\ logouts' = logouts - 1
  /\ UNCHANGED OtherThanLogout

InitLogout ==
  /\ ValidationIdle /\ TreeIdle /\ FmtIdle /\ RouterIdle /\ AiIdle /\ PageIdle

NextLogout == LoginReload \/ FollowLink \/ EntryRemoved \/ HandleLogout \/ LogoutSettle

SpecLogout == InitLogout /\ [][NextLogout]_vars

\* C27: when the request to /auth/logout fails nothing changes: the entries
\* of localStorage, userRole and userFirstName stay and there is no
\* navigation to '/'; starting the logout removes nothing either, so the
\* data is removed only after the request succeeded.
C27_FailedLogoutKeepsData ==
  lastLogout.op \in {"started", "failed"} => AppState = lastLogout.before

\* a logout failed for a logged-in user on the dashboard
C27_Witness ==
  /\ lastLogout.op = "failed"
  /\ getItem(localStorage, "userRole") = "lender"
  /\ userRoleRef = "lender"
  /\ userFirstName = "Bo"
  /\ navPath = "/dashboard"

\* ---------------------------------------------------------- LoanApplication: update mode
\* the loans of loanHistory
LoanHistory ==
  << [id |-> 1, loanAmount |-> "500", description |-> "seeds", loanTerm |-> <<"12", "months">>],
     [id |-> 2, loanAmount |-> "900", description |-> "tools", loanTerm |-> <<"24", "months">>] >>

LoanIds == {LoanHistory[i].id : i \in 1..Len(LoanHistory)}

\* the form handleUpdate fills from a loan; loanTerm.split(' ')[0] is its first word
FormOf(loan) ==
  [amount |-> loan.loanAmount, purpose |-> loan.description, duration |-> loan.loanTerm[1]]

\* validate(formData) with required on the three fields; the amounts of the
\* loans are positive numbers
FormValid(form) == form.amount # "" /\ form.purpose # "" /\ form.duration # ""

\* the request handleSubmit sends
SubmitRequest(updateMode, selected) ==
  IF updateMode /\ selected # 0
    THEN [pc |-> "submit", method |-> "put", id |-> selected]
    ELSE [pc |-> "submit", method |-> "post", id |-> 0]

OtherThanLoan == <<validationVars, treeVars, fmtVars, routerVars, aiVars, analyzeVars,
                   logoutVars>>
LoadingUntouched == UNCHANGED <<loadingState, successAge, timers, page, handler, lastLoad>>

\* the New Application buttons
OpenApplication ==
  /\ showApplicationModal' = TRUE
  /\ UNCHANGED <<selectedLoan, isUpdateMode, loanForm, showDeleteModal, showDetailsModal,
                 loanRequest, updateLoan, lastLoanOp>>
  /\ LoadingUntouched /\ UNCHANGED OtherThanLoan

handleUpdate ==
  /\ \E i \in 1..Len(LoanHistory) :
       /\ selectedLoan' = LoanHistory[i].id
       /\ loanForm' = FormOf(LoanHistory[i])
       /\ updateLoan' = LoanHistory[i].id
  /\ isUpdateMode' = TRUE
  /\ showApplicationModal' = TRUE
  /\ UNCHANGED <<showDeleteModal, showDetailsModal, loanRequest, lastLoanOp>>
  /\ LoadingUntouched /\ UNCHANGED OtherThanLoan

confirmDelete ==
  /\ \E id \in LoanIds : selectedLoan' = id
  /\ showDeleteModal' = TRUE
  /\ UNCHANGED <<isUpdateMode, loanForm, showApplicationModal, showDetailsModal, loanRequest,
                 updateLoan, lastLoanOp>>
  /\ LoadingUntouched /\ UNCHANGED OtherThanLoan

viewDetails ==
  /\ \E id \in LoanIds : selectedLoan' = id
  /\ showDetailsModal' = TRUE
  /\ UNCHANGED <<isUpdateMode, loanForm, showApplicationModal, showDeleteModal, loanRequest,
                 updateLoan, lastLoanOp>>
  /\ LoadingUntouched /\ UNCHANGED OtherThanLoan

\* the Cancel button of the delete modal and the Close button of the details modal
CloseLoanModal ==
  /\ \/ showDeleteModal /\ showDeleteModal' = FALSE /\ UNCHANGED showDetailsModal
     \/ showDetailsModal /\ showDetailsModal' = FALSE /\ UNCHANGED showDeleteModal
  /\ UNCHANGED <<selectedLoan, isUpdateMode, loanForm, showApplicationModal, loanRequest,
                 updateLoan, lastLoanOp>>
  /\ LoadingUntouched /\ UNCHANGED OtherThanLoan

resetForm ==
  /\ loanForm' = BlankForm
  /\ isUpdateMode' = FALSE
  /\ selectedLoan' = 0
  /\ showApplicationModal' = FALSE
  /\ showDeleteModal' = FALSE
  /\ showDetailsModal' = FALSE
  /\ updateLoan' = 0
  /\ loadingState' = clearMessages(loadingState)
  /\ UNCHANGED <<loanRequest, lastLoanOp>>
  /\ UNCHANGED <<successAge, timers, page, handler, lastLoad>>
  /\ UNCHANGED OtherThanLoan

\* handleSubmit up to its await; the submit button is disabled while isLoading
handleSubmit ==
  /\ showApplicationModal
  /\ ~loadingState.isLoading
  /\ IF ~FormValid(loanForm)
       THEN /\ loadingState' = clearMessages(loadingState)
            /\ UNCHANGED <<loanRequest, lastLoanOp>>
       ELSE \E hasUserId \in BOOLEAN :
              IF hasUserId
                THEN /\ loadingState' = startLoading(clearMessages(loadingState))
                     /\ loanRequest' = SubmitRequest(isUpdateMode, selectedLoan)
                     /\ lastLoanOp' = [op |-> SubmitRequest(isUpdateMode, selectedLoan).method,
                                       id |-> SubmitRequest(isUpdateMode, selectedLoan).id,
                                       loaded |-> updateLoan]
                ELSE /\ loadingState' =
                          setError(loadingState,
                                   IF isUpdateMode THEN "Failed to update loan application"
                                   ELSE "Failed to submit loan application")
                     /\ UNCHANGED <<loanRequest, lastLoanOp>>
  /\ UNCHANGED <<selectedLoan, isUpdateMode, loanForm, showApplicationModal, showDeleteModal,
                 showDetailsModal, updateLoan>>
  /\ UNCHANGED <<successAge, timers, page, handler, lastLoad>>
  /\ UNCHANGED OtherThanLoan

\* handleDelete up to its await; the Delete button is disabled while isLoading
handleDelete ==
  /\ showDeleteModal
  /\ ~loadingState.isLoading
  /\ IF selectedLoan = 0
       THEN UNCHANGED <<loadingState, loanRequest, lastLoanOp>>
       ELSE /\ loadingState' = startLoading(loadingState)
            /\ loanRequest' = [pc |-> "delete", method |-> "delete", id |-> selectedLoan]
            /\ lastLoanOp' = [op |-> "delete", id |-> selectedLoan, loaded |-> updateLoan]
  /\ UNCHANGED <<selectedLoan, isUpdateMode, loanForm, showApplicationModal, showDeleteModal,
                 showDetailsModal, updateLoan>>
  /\ UNCHANGED <<successAge, timers, page, handler, lastLoad>>
  /\ UNCHANGED OtherThanLoan

\* the request of handleSubmit or handleDelete settles: on success the refs
\* are reset and loadLoanHistory runs up to its await
LoanSettle ==
  /\ loanRequest.pc \in {"submit", "delete"}
  /\ \/ /\ Len(timers) < MaxTimers
        /\ loadingState' =
             startLoading(setSuccess(loadingState,
               CASE loanRequest.method = "put" -> "Loan application updated successfully!"
                 [] loanRequest.method = "post" -> "Loan application submitted successfully!"
                 [] loanRequest.method = "delete" -> "Loan application deleted successfully!"))
        /\ timers' = SetTimer(timers)
        /\ successAge' = 0
        /\ selectedLoan' = 0
        /\ IF loanRequest.pc = "submit"
             THEN /\ showApplicationModal' = FALSE
                  /\ loanForm' = BlankForm
                  /\ isUpdateMode' = FALSE
                  /\ updateLoan' = 0
                  /\ UNCHANGED showDeleteModal
             ELSE /\ showDeleteModal' = FALSE
                  /\ UNCHANGED <<showApplicationModal, loanForm, isUpdateMode, updateLoan>>
        /\ loanRequest' = [pc |-> "reload", method |-> "get", id |-> 0]
     \/ /\ \E error \in AxiosErrors :
             loadingState' =
               setError(loadingState,
                 ErrorText(Rejection(error),
                   IF loanRequest.pc = "delete" THEN "Failed to delete loan application"
                   ELSE IF isUpdateMode THEN "Failed to update loan application"
                   ELSE "Failed to submit loan application"))
        /\ loanRequest' = NoRequest
        /\ UNCHANGED <<selectedLoan, isUpdateMode, loanForm, showApplicationModal,
                       showDeleteModal, updateLoan, successAge, timers>>
  /\ UNCHANGED <<showDetailsModal, lastLoanOp, page, handler, lastLoad>>
  /\ UNCHANGED OtherThanLoan

\* the request of loadLoanHistory settles
LoanReloadSettle ==
  /\ loanRequest.pc = "reload"
  /\ \/ loadingState' = LoadOk(loadingState, "LoanApplication")
     \/ \E error \in AxiosErrors :
          loadingState' = LoadFailed(loadingState, "LoanApplication", Rejection(error))
  /\ loanRequest' = NoRequest
  /\ UNCHANGED <<selectedLoan, isUpdateMode, loanForm, showApplicationModal, showDeleteModal,
                 showDetailsModal, updateLoan, lastLoanOp>>
  /\ UNCHANGED <<successAge, timers, page, handler, lastLoad>>
  /\ UNCHANGED OtherThanLoan

InitLoan ==
  /\ ValidationIdle /\ TreeIdle /\ FmtIdle /\ RouterIdle /\ AiIdle /\ PageIdle

NextLoan ==
  \/ OpenApplication \/ handleUpdate \/ confirmDelete \/ viewDetails \/ CloseLoanModal
  \/ resetForm \/ handleSubmit \/ handleDelete \/ LoanSettle \/ LoanReloadSettle
  \/ Tick \/ TimerFires

SpecLoan == InitLoan /\ [][NextLoan]_vars

\* C28: whenever isUpdateMode is true, selectedLoan is the loan whose values
\* handleUpdate loaded into the form, and handleSubmit sends its PUT only to
\* the id of that loan.
C28_UpdateTargetsLoadedLoan ==
  /\ isUpdateMode => selectedLoan = updateLoan
  /\ lastLoanOp.op = "put" => lastLoanOp.id = lastLoanOp.loaded

\* ---------------------------------------------------------- validate: rules after the first failing one
\* a rule of field f fails for D[f] after rules that pass, and a later rule
\* of f would throw for D[f]
ShadowedThrow(R, D, f) ==
  \E i \in 1..Len(RulesOf(R, f)) :
    /\ RuleOutcome(RulesOf(R, f)[i], Get(D, f)) = "false"
    /\ \A j \in 1..(i - 1) : RuleOutcome(RulesOf(R, f)[j], Get(D, f)) = "true"
    /\ \E l \in (i + 1)..Len(RulesOf(R, f)) :
         RuleOutcome(RulesOf(R, f)[l], Get(D, f)) = "throw"

\* the rules Register.vue gives the password field
RegisterPasswordRules == <<required("Password"), minLength(8)>>

HasRegisterPasswordRules(R) ==
  "password" \in Keys(R) /\ RulesOf(R, "password") = RegisterPasswordRules

\* C29: validate evaluates the rules of a field in order and evaluates none
\* after the first failing one: a later rule that would throw is not called,
\* so the call returns false with the message of the first failing rule; with
\* [required('Password'), minLength(8)] an absent, null or undefined password
\* yields 'Password is required' and minLength is not applied.
C29_StopsAtFirstFailingRule ==
  (lastOp = "validate" /\ \A g \in Keys(rules) : ~ThrowsFirst(rules, lastData, g)) =>
    /\ \A f \in Keys(rules) :
         ShadowedThrow(rules, lastData, f) =>
           /\ lastRet = "false"
           /\ f \in DOMAIN errors
           /\ errors[f] = RulesOf(rules, f)[FirstFailing(rules, lastData, f)].message
    /\ (HasRegisterPasswordRules(rules)
        /\ Get(lastData, "password") \in {JsNull, JsUndefined}) =>
         /\ lastRet = "false"
         /\ "password" \in DOMAIN errors
         /\ errors["password"] = "Password is required"

\* validate was called without a password under the rules of Register.vue
C29_Witness ==
  /\ lastOp = "validate"
  /\ HasRegisterPasswordRules(rules)
  /\ "password" \notin DOMAIN lastData
  /\ lastRet = "false"
  /\ "password" \in DOMAIN errors
  /\ errors["password"] = "Password is required"

=============================================================================
